---- MODULE Spec2Model ----
(***************************************************************************)
(* Model of the dual interface (src/src/dual_module.rs) and of the         *)
(* fuse-and-resume orchestration of the partition tree                     *)
(* (src/src/primal_module_parallel.rs).                                    *)
(*                                                                         *)
(* Dual nodes live on a heap (`node`), as the Arc<RwLock<DualNode>> of the *)
(* source do: an interface slot holds a pointer, and `fuse` copies the     *)
(* pointers, so a node can be reachable from several interfaces.           *)
(***************************************************************************)
EXTENDS Integers, Sequences, FiniteSets, Bags, TLC

\* ---------------------------------------------------------------- bounds
\* number of DualNodePtr::new calls a behaviour of several units may make; a
\* unit on its own may make one more
MaxNodes == 2
\* cap on the total length grown, over the interfaces
MaxProgress == 2
\* number of fuse calls a behaviour may make
MaxFuses == 1
\* most partitions of a partition tree
MaxPartitions == 2
\* most workers of the thread pool
MaxThreads == 2
\* number of parallel_solve calls a behaviour may make
MaxSolves == 2
\* calls made on the conflict groups
MaxCalls == 4
\* cap on the total length grown when grow_iterative is followed turn by turn
MaxIterative == 4
\* longest possible_break of a serial module before a fuse
MaxBreaks == 3
\* cap on nodes_length of an interface (and on a rebased node index)
MaxLength == MaxNodes + 1
\* longest nodes_circle handed to create_blossom: the blossom is one more node
MaxCircle == MaxLength - 1

\* Option::None for a node pointer; node pointers are 1..MaxLength
None == 0

NodeIds == 1..MaxLength

\* syndrome vertices of the decoding graph, in the order patterns name them
Vertices == 1..MaxLength

\* the three interfaces of one fusion: the two children and the fusing unit
Interfaces == {"left", "right", "self"}

\* the virtual vertices a node of these units can be matched to: one on the
\* interface between the children, one on the interface to the rest of the graph
VirtualVertices == {"interface", "outer"}

\* Option::None for the temporary_match of a primal node
NoMatch == "none"

\* partition_info.vertex_to_owning_unit on the virtual vertices
VertexToOwningUnit(v) == IF v = "interface" THEN "self" ELSE "ancestor"

DualNodeGrowState == {"Grow", "Stay", "Shrink"}

VARIABLES
    node,       \* heap of DualNode, indexed by pointer
    allocated,  \* number of pointers handed out by DualNodePtr::new
    interface,  \* the DualModuleInterface of each unit
    call,       \* the interface operation in progress and its position
    fuses,      \* number of fuse calls made so far
    fused,      \* whether "self" has fused its children since the last clear
    temporary_match,  \* of the primal node of each dual node: a virtual vertex or NoMatch
    possible_break,   \* of the serial primal module of each unit
    history     \* what the calls made so far did: the indices they assigned, the
                \* slots they vacated, the last blossom they created

varsInterface == <<node, allocated, interface, call, fuses, fused,
                   temporary_match, possible_break, history>>

\* what the interface operations leave alone
varsPrimal == <<temporary_match, possible_break>>

VARIABLES
    partition_info,  \* the partition tree: the partitions and the fusion plan
    config,          \* PrimalModuleParallelConfig
    is_active,       \* of each PrimalModuleParallelUnit
    pc,              \* where the solve step of each unit is
    primal_lock,     \* who holds the write lock of each primal unit
    dual_lock,       \* who holds the write lock of each dual unit
    worker,          \* the worker of the pool that runs the step of each unit
    stack,           \* the calls each worker is in, innermost last
    solve_count,     \* serial solves of each unit since the last clear
    fused_units,     \* the units that fused their children since the last clear
    solves,          \* number of parallel_solve calls made so far
    steps            \* of each unit: what its solve step has done so far, from
                     \* the return of its children on

varsParallel == <<partition_info, config, is_active, pc, primal_lock, dual_lock,
                  worker, stack, solve_count, fused_units, solves,
                  steps>>

VARIABLES
    group,     \* the GroupMaxUpdateLength of a unit ("self") and of another ("other")
    trace,     \* the calls made on the groups so far, oldest first
    returned,  \* what the last pop or peek returned
    formed     \* of each group and vertex: the Conflicting events the pending stops formed

varsGroup == <<group, trace, returned, formed>>

vars == <<varsInterface, varsParallel, varsGroup>>

\* ------------------------------------------------------------ dual nodes

\* a heap cell no DualNodePtr::new has filled yet
Unallocated ==
    [index |-> 0, class |-> "Unallocated", syndrome_index |-> None,
     nodes_circle |-> <<>>, touching_children |-> <<>>,
     grow_state |-> "Stay", parent_blossom |-> None,
     dual_variable_cache |-> <<0, 0>>]

\* unit_growth of a grow state: Grow (+1), Stay (+0), Shrink (-1)
UnitGrowth(gs) ==
    CASE gs = "Grow" -> 1
      [] gs = "Shrink" -> -1
      [] OTHER -> 0

\* DualNode::get_dual_variable
GetDualVariable(nd, itf) ==
    LET last_dual_variable == nd.dual_variable_cache[1]
        last_global_progress == nd.dual_variable_cache[2]
    IN CASE nd.grow_state = "Grow" ->
              last_dual_variable + (itf.dual_variable_global_progress - last_global_progress)
         [] nd.grow_state = "Stay" -> last_dual_variable
         [] OTHER ->
              last_dual_variable - (itf.dual_variable_global_progress - last_global_progress)

RECURSIVE GetAncestorBlossom(_, _)
\* DualNodePtr::get_ancestor_blossom
GetAncestorBlossom(heap, n) ==
    IF heap[n].parent_blossom = None THEN n
    ELSE GetAncestorBlossom(heap, heap[n].parent_blossom)

RECURSIVE GetRepresentativeNode(_, _)
\* the syndrome node DualNodePtr::get_representative_vertex descends to
GetRepresentativeNode(heap, n) ==
    IF heap[n].class = "Blossom" /\ Len(heap[n].nodes_circle) > 0
    THEN GetRepresentativeNode(heap, heap[n].nodes_circle[1])
    ELSE n

\* ------------------------------------------------------------- interface

\* DualModuleInterface::new_empty
NewEmpty ==
    [nodes |-> <<>>, nodes_length |-> 0, sum_grow_speed |-> 0,
     sum_dual_variables |-> 0, dual_variable_global_progress |-> 0]

\* self.nodes[idx] = value, after the push that makes the slot exist
PutSlot(nodes, idx, value) ==
    IF Len(nodes) < idx + 1 THEN Append(nodes, value)
    ELSE [nodes EXCEPT ![idx + 1] = value]

\* the pointers in the non-empty slots below nodes_length
TrackedNodes(itf) ==
    {itf.nodes[k] : k \in {j \in 1..itf.nodes_length : itf.nodes[j] # None}}

\* DualModuleInterface::check_ptr_belonging
CheckPtrBelonging(heap, itf, n) ==
    /\ heap[n].index < itf.nodes_length
    /\ itf.nodes[heap[n].index + 1] = n

Idle == [op |-> "idle", interface |-> "self", blossom |-> None,
         circle |-> <<>>, touching |-> <<>>, i |-> 0, stage |-> "none",
         possible_break |-> <<>>]

\* no create_blossom has been called
NotCreated == [state |-> "none", interface |-> "self", blossom |-> None,
               circle |-> <<>>, grow_states |-> <<>>, touching |-> <<>>,
               sum_grow_speed |-> 0, shrinking |-> 0, after |-> <<>>]

\* no grow_iterative is in progress
NotGrowing == [requested |-> 0, before |-> <<>>, queries |-> 0, reported |-> 0,
               growth |-> 0]

\* break_matching_with_mirror is not being run: the temporary matches at its
\* call, when it is
NotBreaking == [n \in NodeIds |-> NoMatch]

\* the backend has been told of no grow state: the node and the states of the
\* set_grow_state being run (prior: of the node at its call, seen: of the node
\* when the backend is called), the number of backend calls and the heap and
\* interface at the call of the operation being run
NotCalled == [node |-> None, prior |-> "none", requested |-> "none", seen |-> "none",
              calls |-> 0, heap |-> <<>>, itf |-> <<>>]

\* parallel_solve has not been called: the syndrome pattern it is called with
\* and the units that have loaded their share of it
NotSolving == [state |-> "none", pattern |-> <<>>, loaded |-> {}]

\* no call has been made
NoHistory ==
    [assigned |-> [u \in Interfaces |-> <<>>],
     assigned_since_clear |-> [u \in Interfaces |-> <<>>],
     vacated |-> [u \in Interfaces |-> {}],
     vacated_since_clear |-> [u \in Interfaces |-> {}],
     created |-> NotCreated,
     grow_iterative |-> NotGrowing,
     break_matching |-> NotBreaking,
     backend |-> NotCalled,
     solve |-> NotSolving]

\* the calls gave the indices `indices` to nodes of interface u, in this order
Assigned(h, u, indices) ==
    [h EXCEPT !.assigned[u] = @ \o indices,
              !.assigned_since_clear[u] = @ \o indices]

\* expand_blossom vacated slot `index` of interface u
Vacated(h, u, index) ==
    [h EXCEPT !.vacated[u] = @ \cup {index},
              !.vacated_since_clear[u] = @ \cup {index}]

\* every interface was cleared
Cleared(h) ==
    [h EXCEPT !.assigned_since_clear = [u \in Interfaces |-> <<>>],
              !.vacated_since_clear = [u \in Interfaces |-> {}],
              !.created = NotCreated]

InitInterface ==
    /\ history = NoHistory
    /\ node = [n \in NodeIds |-> Unallocated]
    /\ allocated = 0
    /\ interface = [u \in Interfaces |-> NewEmpty]
    /\ call = Idle
    /\ fuses = 0
    /\ fused = FALSE
    /\ temporary_match = [n \in NodeIds |-> NoMatch]
    /\ possible_break = [u \in Interfaces |-> <<>>]

\* the unit whose interface is operated on: the only unit of a single
\* partition; else a child until its parent fuses it (the parent marks it
\* inactive), the parent from its fuse on
Operable(u) ==
    IF partition_info.partitions = 1 THEN u = "self"
    ELSE IF u = "self" THEN fused ELSE ~fused

\* the DualNodePtr::new calls a behaviour may make
NodeBudget == IF partition_info.partitions = 1 THEN MaxLength ELSE MaxNodes

\* DualModuleInterface::create_syndrome_node, on the heap and one interface
SyndromeNodeHeap(heap, itf, n, v) ==
    [heap EXCEPT ![n] =
        [index |-> itf.nodes_length, class |-> "SyndromeVertex", syndrome_index |-> v,
         nodes_circle |-> <<>>, touching_children |-> <<>>,
         grow_state |-> "Grow", parent_blossom |-> None,
         dual_variable_cache |-> <<0, itf.dual_variable_global_progress>>]]

\* a create_syndrome_node that fills the slot and leaves nodes_length alone
SyndromeNodeInterfaceKeepsLength(itf, n) ==
    [itf EXCEPT !.sum_grow_speed = @ + 1,
                !.nodes = PutSlot(@, itf.nodes_length, n)]

SyndromeNodeInterface(itf, n) ==
    [itf EXCEPT !.sum_grow_speed = @ + 1,
                !.nodes_length = @ + 1,
                !.nodes = PutSlot(@, itf.nodes_length, n)]

\* the vertices some interface tracks a syndrome node for
LiveVertices ==
    {node[n].syndrome_index :
        n \in {m \in UNION {TrackedNodes(interface[u]) : u \in Interfaces} :
                  node[m].class = "SyndromeVertex"}}

\* a syndrome pattern names distinct vertices; the next one is the first vertex
\* no interface tracks
NextVertex ==
    IF Vertices \ LiveVertices = {} THEN None
    ELSE CHOOSE v \in Vertices \ LiveVertices : \A w \in Vertices \ LiveVertices : v <= w

CreateSyndromeNode(u, v) ==
    /\ call.op = "idle"
    /\ Operable(u)
    /\ allocated < NodeBudget
    /\ interface[u].nodes_length < MaxLength
    /\ v = NextVertex
    /\ node' = SyndromeNodeHeap(node, interface[u], allocated + 1, v)
    /\ interface' = [interface EXCEPT ![u] = SyndromeNodeInterface(@, allocated + 1)]
    /\ allocated' = allocated + 1
    /\ history' = Assigned(history, u, <<node'[allocated + 1].index>>)
    /\ UNCHANGED <<varsParallel, varsGroup, call, fuses, fused, varsPrimal>>

\* DualModuleInterface::clear
ClearInterface(itf) == [itf EXCEPT !.nodes_length = 0]

\* PrimalModuleParallel::clear: every unit clears its interface, and the
\* children are the active units again
Clear ==
    /\ call.op = "idle"
    /\ interface' = [u \in Interfaces |-> ClearInterface(interface[u])]
    /\ fused' = FALSE
    /\ temporary_match' = [n \in NodeIds |-> NoMatch]
    /\ possible_break' = [u \in Interfaces |-> <<>>]
    /\ history' = Cleared(history)
    /\ UNCHANGED <<varsParallel, varsGroup, node, allocated, call, fuses>>

RECURSIVE LoadHeap(_, _, _, _)
\* DualModuleInterface::load: one create_syndrome_node per vertex of the pattern
LoadHeap(heap, itf, next, pattern) ==
    IF pattern = <<>> THEN heap
    ELSE LoadHeap(SyndromeNodeHeap(heap, itf, next, Head(pattern)),
                  SyndromeNodeInterface(itf, next), next + 1, Tail(pattern))

RECURSIVE LoadInterface(_, _, _)
LoadInterface(itf, next, pattern) ==
    IF pattern = <<>> THEN itf
    ELSE LoadInterface(SyndromeNodeInterface(itf, next), next + 1, Tail(pattern))

\* the syndrome patterns of two vertices (one vertex is CreateSyndromeNode)
SyndromePatterns ==
    {p \in [1..2 -> Vertices] : p[1] = NextVertex /\ p[2] \notin LiveVertices /\ p[1] < p[2]
                                 /\ \A w \in Vertices \ LiveVertices : w = p[1] \/ p[2] <= w}

Load(u, pattern) ==
    /\ call.op = "idle"
    /\ Operable(u)
    /\ allocated + Len(pattern) <= NodeBudget
    /\ interface[u].nodes_length + Len(pattern) <= MaxLength
    /\ node' = LoadHeap(node, interface[u], allocated + 1, pattern)
    /\ interface' = [interface EXCEPT ![u] = LoadInterface(@, allocated + 1, pattern)]
    /\ allocated' = allocated + Len(pattern)
    /\ history' = Assigned(history, u,
                      [k \in 1..Len(pattern) |-> node'[allocated + k].index])
    /\ UNCHANGED <<varsParallel, varsGroup, call, fuses, fused, varsPrimal>>

\* a set_grow_state that adds the new state to sum_grow_speed and keeps the old
SetGrowStateSpeedKeepsOld(heap, itf, n, grow_state) ==
    [itf EXCEPT !.sum_grow_speed = @ + UnitGrowth(grow_state)]

\* DualModuleInterface::set_grow_state: the sum_grow_speed it leaves
SetGrowStateSpeed(heap, itf, n, grow_state) ==
    [itf EXCEPT !.sum_grow_speed =
        @ - UnitGrowth(heap[n].grow_state) + UnitGrowth(grow_state)]

\* a set_grow_state that sets the new state and leaves the cache as it was
SetGrowStateHeapKeepsCache(heap, itf, n, grow_state) ==
    [heap EXCEPT ![n] = [@ EXCEPT !.grow_state = grow_state]]

\* a set_grow_state that refreshes the cache and forgets the new state
SetGrowStateHeapKeepsState(heap, itf, n, grow_state) ==
    [heap EXCEPT ![n] =
        [@ EXCEPT !.dual_variable_cache =
                      <<GetDualVariable(heap[n], itf), itf.dual_variable_global_progress>>]]

\* DualModuleInterface::set_grow_state: the cache refresh, then
\* DualNodePtr::set_grow_state
SetGrowStateHeap(heap, itf, n, grow_state) ==
    [heap EXCEPT ![n] =
        [@ EXCEPT !.dual_variable_cache =
                      <<GetDualVariable(heap[n], itf), itf.dual_variable_global_progress>>,
                  !.grow_state = grow_state]]

SetGrowState(u, n, grow_state) ==
    /\ call.op = "idle"
    /\ Operable(u)
    /\ n \in TrackedNodes(interface[u])
    /\ node[n].parent_blossom = None  \* the assert of DualNodePtr::set_grow_state
    /\ temporary_match[n] = NoMatch  \* a matched node stays as it is
    /\ interface' = [interface EXCEPT ![u] = SetGrowStateSpeed(node, @, n, grow_state)]
    /\ node' = SetGrowStateHeap(node, interface[u], n, grow_state)
    /\ UNCHANGED <<varsParallel, varsGroup, history, allocated, call, fuses, fused, varsPrimal>>

\* DualModuleInterface::grow
GrowInterface(itf, length) ==
    [itf EXCEPT !.sum_dual_variables = @ + length * itf.sum_grow_speed,
                !.dual_variable_global_progress = @ + length]

\* the length grown so far, over the interfaces
TotalProgress ==
    interface["left"].dual_variable_global_progress
    + interface["right"].dual_variable_global_progress
    + interface["self"].dual_variable_global_progress

\* the backend's contract for grow: a positive length that no shrinking node
\* of the interface runs out of dual variable on
CanGrow(itf, length) ==
    /\ length > 0
    /\ TotalProgress + length <= MaxProgress
    /\ \A n \in TrackedNodes(itf) :
          node[n].grow_state = "Shrink" => GetDualVariable(node[n], itf) >= length

Grow(u, length) ==
    /\ call.op = "idle"
    /\ Operable(u)
    /\ CanGrow(interface[u], length)
    /\ interface' = [interface EXCEPT ![u] = GrowInterface(@, length)]
    /\ UNCHANGED <<varsParallel, varsGroup, history, node, allocated, call, fuses, fused, varsPrimal>>

\* a min that takes the length the backend reported, whatever is left to grow
MinTakesReported(a, b) == b

Min(a, b) == IF a < b THEN a ELSE b

\* the lengths a backend reports in NonZeroGrow: positive
SafeGrowths == 1..(MaxIterative - 1)

\* no shrinking node of the interface runs out of dual variable on `length`
SafeFor(itf, length) ==
    \A n \in TrackedNodes(itf) :
        node[n].grow_state = "Shrink" => GetDualVariable(node[n], itf) >= length

RECURSIVE GrowIterativeInterface(_, _, _)
\* DualModuleInterface::grow_iterative against a backend that reports
\* NonZeroGrow(safe_growth) at each query
GrowIterativeInterface(itf, length, safe_growth) ==
    IF length > 0
    THEN GrowIterativeInterface(GrowInterface(itf, Min(length, safe_growth)),
                                length - Min(length, safe_growth), safe_growth)
    ELSE itf

GrowIterative(u, length, safe_growth) ==
    /\ call.op = "idle"
    /\ Operable(u)
    /\ length = 0 \/ CanGrow(interface[u], length)
    /\ interface' = [interface EXCEPT ![u] = GrowIterativeInterface(@, length, safe_growth)]
    /\ UNCHANGED <<varsParallel, varsGroup, history, node, allocated, call, fuses, fused, varsPrimal>>

\* ------------------------------------------------- grow_iterative, by step

\* grow_iterative is called with `length`; call.i is what is left to grow
GrowIterativeBegin(u, length) ==
    /\ call.op = "idle"
    /\ Operable(u)
    /\ TotalProgress + length <= MaxIterative
    /\ SafeFor(interface[u], length)
    /\ call' = [Idle EXCEPT !.op = "grow_iterative", !.interface = u, !.i = length,
                            !.stage = "loop"]
    /\ history' = [history EXCEPT !.grow_iterative =
          [requested |-> length, before |-> interface[u], queries |-> 0,
           reported |-> 0, growth |-> 0]]
    /\ UNCHANGED <<varsParallel, varsGroup, node, allocated, interface, fuses, fused, varsPrimal>>

\* one turn of the loop: the backend reports NonZeroGrow(safe_growth), and
\* the interface grows by min(length, safe_growth)
GrowIterativeLoop(safe_growth) ==
    /\ call.op = "grow_iterative"
    /\ call.i > 0
    /\ LET growth == Min(call.i, safe_growth)
       IN /\ interface' = [interface EXCEPT ![call.interface] = GrowInterface(@, growth)]
          /\ call' = [call EXCEPT !.i = @ - growth]
          /\ history' = [history EXCEPT !.grow_iterative.queries = @ + 1,
                                        !.grow_iterative.reported = safe_growth,
                                        !.grow_iterative.growth = growth]
    /\ UNCHANGED <<varsParallel, varsGroup, node, allocated, fuses, fused, varsPrimal>>

\* the loop is over: nothing is left to grow
GrowIterativeFinish ==
    /\ call.op = "grow_iterative"
    /\ ~(call.i > 0)
    /\ call' = Idle
    /\ history' = [history EXCEPT !.grow_iterative = NotGrowing]
    /\ UNCHANGED <<varsParallel, varsGroup, node, allocated, interface, fuses, fused, varsPrimal>>

\* ------------------------------------------------- create_blossom, by step

\* the circles create_blossom accepts: members that belong to the interface,
\* have no parent and alternate Grow, Shrink from a Grow at position 0
NodesCircles(heap, itf) ==
    {c \in UNION {[1..m -> TrackedNodes(itf)] : m \in 1..MaxCircle} :
        /\ \A j, k \in 1..Len(c) : j # k => c[j] # c[k]
        /\ \A k \in 1..Len(c) :
              /\ CheckPtrBelonging(heap, itf, c[k])
              /\ heap[c[k]].parent_blossom = None
              /\ heap[c[k]].grow_state = (IF (k - 1) % 2 = 0 THEN "Grow" ELSE "Shrink")}

\* touching_children as the caller passes them: none (the default is filled in),
\* or for each member the descendant it touched its neighbours at
TouchingChoices(heap, c) ==
    {<<>>, [k \in 1..Len(c) |->
               <<GetRepresentativeNode(heap, c[k]), GetRepresentativeNode(heap, c[k])>>]}

\* the default create_blossom fills in for an empty touching_children
DefaultTouching(c, touching) ==
    IF Len(touching) = 0 THEN [k \in 1..Len(c) |-> <<c[k], c[k]>>] ELSE touching

\* create_blossom up to its loop: the new DualNodePtr, with an empty class
CreateBlossomBegin(u, c, touching) ==
    /\ call.op = "idle"
    /\ Operable(u)
    /\ allocated < NodeBudget
    /\ interface[u].nodes_length < MaxLength
    /\ c \in NodesCircles(node, interface[u])
    /\ touching \in TouchingChoices(node, c)
    /\ Len(DefaultTouching(c, touching)) = Len(c)
    /\ node' = [node EXCEPT ![allocated + 1] =
          [index |-> interface[u].nodes_length, class |-> "Blossom",
           syndrome_index |-> None, nodes_circle |-> <<>>, touching_children |-> <<>>,
           grow_state |-> "Grow", parent_blossom |-> None,
           dual_variable_cache |-> <<0, interface[u].dual_variable_global_progress>>]]
    /\ allocated' = allocated + 1
    /\ call' = [op |-> "create_blossom", interface |-> u, blossom |-> allocated + 1,
                circle |-> c, touching |-> DefaultTouching(c, touching),
                i |-> 1, stage |-> "set_state", possible_break |-> <<>>]
    /\ history' = [Assigned(history, u, <<node'[allocated + 1].index>>) EXCEPT
          !.created = [state |-> "creating", interface |-> u, blossom |-> allocated + 1,
                       circle |-> c,
                       grow_states |-> [k \in 1..Len(c) |-> node[c[k]].grow_state],
                       touching |-> touching,
                       sum_grow_speed |-> interface[u].sum_grow_speed,
                       shrinking |-> Cardinality({k \in 1..Len(c) :
                                                     node[c[k]].grow_state = "Shrink"}),
                       after |-> <<>>]]
    /\ UNCHANGED <<varsParallel, varsGroup, interface, fuses, fused, varsPrimal>>

\* one member of the loop: self.set_grow_state(node_ptr, Stay)
CreateBlossomSetStay ==
    /\ call.op = "create_blossom" /\ call.stage = "set_state"
    /\ call.i <= Len(call.circle)
    /\ node[call.circle[call.i]].parent_blossom = None
    /\ interface' = [interface EXCEPT ![call.interface] =
                        SetGrowStateSpeed(node, @, call.circle[call.i], "Stay")]
    /\ node' = SetGrowStateHeap(node, interface[call.interface], call.circle[call.i], "Stay")
    /\ call' = [call EXCEPT !.stage = "set_parent"]
    /\ UNCHANGED <<varsParallel, varsGroup, history, allocated, fuses, fused, varsPrimal>>

\* one member of the loop: node.parent_blossom = Some(blossom)
CreateBlossomSetParent ==
    /\ call.op = "create_blossom" /\ call.stage = "set_parent"
    /\ node' = [node EXCEPT ![call.circle[call.i]].parent_blossom = call.blossom]
    /\ call' = [call EXCEPT !.stage = "set_state", !.i = @ + 1]
    /\ UNCHANGED <<varsParallel, varsGroup, history, allocated, interface, fuses, fused, varsPrimal>>

\* after the loop: the class is filled in and the blossom takes the next slot
CreateBlossomFinish ==
    /\ call.op = "create_blossom" /\ call.stage = "set_state"
    /\ call.i > Len(call.circle)
    /\ node' = [node EXCEPT ![call.blossom] =
                   [@ EXCEPT !.nodes_circle = call.circle,
                             !.touching_children = call.touching]]
    /\ interface' = [interface EXCEPT ![call.interface] =
          [@ EXCEPT !.nodes_length = @ + 1,
                    !.nodes = PutSlot(@, node[call.blossom].index, call.blossom),
                    !.sum_grow_speed = @ + 1]]
    /\ call' = Idle
    /\ history' = [history EXCEPT !.created.state = "created",
                                  !.created.after = <<node', interface'[call.interface]>>]
    /\ UNCHANGED <<varsParallel, varsGroup, allocated, fuses, fused, varsPrimal>>

\* ------------------------------------------------- expand_blossom, by step

\* expand_blossom up to its loop: sum_grow_speed forgets the blossom and the
\* slot is vacated
ExpandBlossomBegin(u, b) ==
    /\ call.op = "idle"
    /\ Operable(u)
    /\ b \in TrackedNodes(interface[u])
    /\ node[b].class = "Blossom"
    /\ node[b].index < Len(interface[u].nodes)
    /\ interface[u].nodes[node[b].index + 1] = b  \* the two asserts on the slot
    /\ \A k \in 1..Len(node[b].nodes_circle) :
          /\ node[node[b].nodes_circle[k]].parent_blossom = b
          /\ node[node[b].nodes_circle[k]].grow_state = "Stay"
    /\ interface' = [interface EXCEPT ![u] =
          [@ EXCEPT !.sum_grow_speed = @ - UnitGrowth(node[b].grow_state),
                    !.nodes = [@ EXCEPT ![node[b].index + 1] = None]]]
    /\ call' = [op |-> "expand_blossom", interface |-> u, blossom |-> b,
                circle |-> node[b].nodes_circle, touching |-> <<>>,
                i |-> 1, stage |-> "clear_parent", possible_break |-> <<>>]
    /\ history' = [Vacated(history, u, node[b].index) EXCEPT
          !.created = IF /\ @.state = "created" /\ @.blossom = b /\ @.interface = u
                         /\ @.after = <<node, interface[u]>>
                      THEN [@ EXCEPT !.state = "expanding", !.after = <<>>]
                      ELSE NotCreated]
    /\ UNCHANGED <<varsParallel, varsGroup, node, allocated, fuses, fused, varsPrimal>>

\* one member of the loop: node.parent_blossom = None
ExpandBlossomClearParent ==
    /\ call.op = "expand_blossom" /\ call.stage = "clear_parent"
    /\ call.i <= Len(call.circle)
    /\ node' = [node EXCEPT ![call.circle[call.i]].parent_blossom = None]
    /\ call' = [call EXCEPT !.stage = "set_state"]
    /\ UNCHANGED <<varsParallel, varsGroup, history, allocated, interface, fuses, fused, varsPrimal>>

\* one member of the loop: self.set_grow_state(node_ptr, Grow)
ExpandBlossomSetGrow ==
    /\ call.op = "expand_blossom" /\ call.stage = "set_state"
    /\ node[call.circle[call.i]].parent_blossom = None
    /\ interface' = [interface EXCEPT ![call.interface] =
                        SetGrowStateSpeed(node, @, call.circle[call.i], "Grow")]
    /\ node' = SetGrowStateHeap(node, interface[call.interface], call.circle[call.i], "Grow")
    /\ call' = [call EXCEPT !.stage = "clear_parent", !.i = @ + 1]
    /\ UNCHANGED <<varsParallel, varsGroup, history, allocated, fuses, fused, varsPrimal>>

\* the loop is over
ExpandBlossomFinish ==
    /\ call.op = "expand_blossom" /\ call.stage = "clear_parent"
    /\ call.i > Len(call.circle)
    /\ call' = Idle
    /\ history' = [history EXCEPT
          !.created.state = IF @ = "expanding" THEN "expanded" ELSE @]
    /\ UNCHANGED <<varsParallel, varsGroup, node, allocated, interface, fuses, fused, varsPrimal>>

\* ------------------------------------------------------------------ fuse

\* one turn of the inner loop of fuse, for slot other_node_index of `other`:
\* st is the heap and the fusing interface so far
FuseSlot(st, other, bias, other_node_index) ==
    LET node_ptr == other.nodes[other_node_index + 1]
        length == st.itf.nodes_length + 1
        pushed == IF Len(st.itf.nodes) <= length THEN Append(st.itf.nodes, None)
                  ELSE st.itf.nodes
    IN [heap |-> IF node_ptr = None THEN st.heap
                 ELSE [st.heap EXCEPT ![node_ptr] =
                        [@ EXCEPT !.index = @ + bias,
                                  !.dual_variable_cache =
                                      <<GetDualVariable(st.heap[node_ptr], other),
                                        st.itf.dual_variable_global_progress>>]],
        itf |-> [st.itf EXCEPT !.nodes_length = length,
                               !.nodes = [pushed EXCEPT ![bias + other_node_index + 1] = node_ptr]]]

RECURSIVE FuseSlots(_, _, _, _)
\* the inner loop of fuse from slot other_node_index on
FuseSlots(st, other, bias, other_node_index) ==
    IF other_node_index >= other.nodes_length THEN st
    ELSE FuseSlots(FuseSlot(st, other, bias, other_node_index), other, bias,
                   other_node_index + 1)

\* a fuse whose totals are added inside the loop over the slots, once for each
\* slot of `other`
FuseOtherTotalsPerSlot(st, other) ==
    LET copied == FuseSlots(st, other, st.itf.nodes_length, 0)
    IN [heap |-> copied.heap,
        itf |-> [copied.itf EXCEPT
                    !.sum_dual_variables = @ + other.nodes_length * other.sum_dual_variables,
                    !.sum_grow_speed = @ + other.nodes_length * other.sum_grow_speed]]

\* one turn of the outer loop of fuse: the slots of `other`, then its totals
FuseOther(st, other) ==
    LET copied == FuseSlots(st, other, st.itf.nodes_length, 0)
    IN [heap |-> copied.heap,
        itf |-> [copied.itf EXCEPT
                    !.sum_dual_variables = @ + other.sum_dual_variables,
                    !.sum_grow_speed = @ + other.sum_grow_speed]]

\* a fuse that copies the nodes of the left child twice
FuseInterfacesLeftTwice(heap, self, left, right) ==
    FuseOther(FuseOther([heap |-> heap, itf |-> self], left), left)

\* DualModuleInterface::fuse: "for other in [left, right]"
FuseInterfaces(heap, self, left, right) ==
    FuseOther(FuseOther([heap |-> heap, itf |-> self], left), right)

\* the fusing unit copies the nodes of its two children into its own interface
\* and the possible breaks into its serial module, and goes on to
\* break_matching_with_mirror
Fuse ==
    /\ call.op = "idle"
    /\ partition_info.partitions > 1
    /\ ~fused
    /\ fuses < MaxFuses
    /\ fuses' = fuses + 1
    /\ fused' = TRUE
    /\ LET result == FuseInterfaces(node, interface["self"], interface["left"], interface["right"])
       IN /\ result.itf.nodes_length <= MaxLength
          /\ \A n \in NodeIds : result.heap[n].index <= MaxLength
          /\ node' = result.heap
          /\ interface' = [interface EXCEPT !["self"] = result.itf]
          /\ history' = [Assigned(history, "self",
                SelectSeq([k \in 1..(result.itf.nodes_length - interface["self"].nodes_length)
                              |-> interface["self"].nodes_length + k - 1],
                          LAMBDA index : result.itf.nodes[index + 1] # None))
                EXCEPT !.break_matching = temporary_match]
    /\ possible_break' = [possible_break EXCEPT
          !["self"] = @ \o possible_break["left"] \o possible_break["right"]]
    /\ call' = [op |-> "break_matching", interface |-> "self", blossom |-> None,
                circle |-> possible_break'["self"], touching |-> <<>>,
                i |-> 1, stage |-> "match", possible_break |-> <<>>]
    /\ UNCHANGED <<varsParallel, varsGroup, allocated, temporary_match>>

\* ------------------------------------- break_matching_with_mirror, by step

\* the serial primal module matches a growing root node to the virtual vertex
\* it touches: the node stays, and the match may have to be broken by a parent
MatchVirtual(u, n, v) ==
    /\ call.op = "idle"
    /\ Operable(u)
    /\ VertexToOwningUnit(v) # u
    /\ n \in TrackedNodes(interface[u])
    /\ node[n].parent_blossom = None
    /\ node[n].grow_state = "Grow"
    /\ temporary_match[n] = NoMatch
    /\ Len(possible_break[u]) < MaxBreaks
    /\ temporary_match' = [temporary_match EXCEPT ![n] = v]
    /\ possible_break' = [possible_break EXCEPT ![u] = Append(@, n)]
    /\ interface' = [interface EXCEPT ![u] = SetGrowStateSpeed(node, @, n, "Stay")]
    /\ node' = SetGrowStateHeap(node, interface[u], n, "Stay")
    /\ UNCHANGED <<varsParallel, varsGroup, history, allocated, call, fuses, fused>>

\* the serial primal module gives up the match of a node to a virtual vertex
\* (the node is matched to a peer instead): possible_break keeps its entry
Unmatch(u, n) ==
    /\ call.op = "idle"
    /\ Operable(u)
    /\ n \in TrackedNodes(interface[u])
    /\ temporary_match[n] # NoMatch
    /\ temporary_match' = [temporary_match EXCEPT ![n] = NoMatch]
    /\ UNCHANGED <<varsParallel, varsGroup, history, node, allocated, interface, call,
                   fuses, fused, possible_break>>

\* one entry matched to a virtual vertex this unit owns:
\* primal_node.temporary_match = None
BreakMatchingClearMatch ==
    /\ call.op = "break_matching" /\ call.stage = "match"
    /\ call.i <= Len(call.circle)
    /\ temporary_match[call.circle[call.i]] # NoMatch
    /\ VertexToOwningUnit(temporary_match[call.circle[call.i]]) = call.interface
    /\ temporary_match' = [temporary_match EXCEPT ![call.circle[call.i]] = NoMatch]
    /\ call' = [call EXCEPT !.stage = "set_state"]
    /\ UNCHANGED <<varsParallel, varsGroup, history, node, allocated, interface, fuses, fused, possible_break>>

\* the same entry: self.interface_ptr.set_grow_state(origin, Grow)
BreakMatchingSetGrow ==
    /\ call.op = "break_matching" /\ call.stage = "set_state"
    /\ node[call.circle[call.i]].parent_blossom = None
    /\ interface' = [interface EXCEPT ![call.interface] =
                        SetGrowStateSpeed(node, @, call.circle[call.i], "Grow")]
    /\ node' = SetGrowStateHeap(node, interface[call.interface], call.circle[call.i], "Grow")
    /\ call' = [call EXCEPT !.stage = "match", !.i = @ + 1]
    /\ UNCHANGED <<varsParallel, varsGroup, history, allocated, fuses, fused, varsPrimal>>

\* a loop that pushes no entry
NoPossibleBreak(kept, n) == kept

\* "if let Some((MatchTarget::VirtualVertex(..), _))": an entry matched to a
\* virtual vertex of another unit is pushed ("still possible break"), an entry
\* that is not matched to a virtual vertex is not
StillPossibleBreak(kept, n) ==
    IF temporary_match[n] = NoMatch THEN kept ELSE Append(kept, n)

\* one entry matched to a virtual vertex of another unit: still a possible
\* break; an entry that is not matched to a virtual vertex is dropped
BreakMatchingKeep ==
    /\ call.op = "break_matching" /\ call.stage = "match"
    /\ call.i <= Len(call.circle)
    /\ \/ temporary_match[call.circle[call.i]] = NoMatch
       \/ VertexToOwningUnit(temporary_match[call.circle[call.i]]) # call.interface
    /\ call' = [call EXCEPT
          !.i = @ + 1,
          !.possible_break = StillPossibleBreak(@, call.circle[call.i])]
    /\ UNCHANGED <<varsParallel, varsGroup, history, node, allocated, interface, fuses, fused, varsPrimal>>

\* after the loop: the serial module keeps the entries that are still possible
BreakMatchingFinish ==
    /\ call.op = "break_matching" /\ call.stage = "match"
    /\ call.i > Len(call.circle)
    /\ possible_break' = [possible_break EXCEPT ![call.interface] = call.possible_break]
    /\ call' = Idle
    /\ history' = [history EXCEPT !.break_matching = NotBreaking]
    /\ UNCHANGED <<varsParallel, varsGroup, node, allocated, interface, fuses, fused, temporary_match>>

\* ---------------------------------------------------------- sanity_check

RECURSIVE SumIndividualDualVariable(_, _, _)
\* sum_individual_dual_variable of sanity_check, over self.nodes from slot k on
SumIndividualDualVariable(heap, itf, k) ==
    IF k > Len(itf.nodes) THEN 0
    ELSE (IF itf.nodes[k] = None THEN 0 ELSE GetDualVariable(heap[itf.nodes[k]], itf))
         + SumIndividualDualVariable(heap, itf, k + 1)

\* the index is below nodes_length and its slot holds this very pointer
StillTracked(heap, itf, n) ==
    /\ heap[n].index < itf.nodes_length
    /\ itf.nodes[heap[n].index + 1] = n

\* the checks of sanity_check on member idx of the circle of blossom b
SanityCircleMember(heap, itf, b, idx) ==
    LET c == heap[b].nodes_circle[idx]
        t == heap[b].touching_children[idx]
    IN /\ c # b
       /\ heap[c].parent_blossom = b
       /\ heap[c].grow_state = "Stay"
       /\ StillTracked(heap, itf, c)
       /\ IF heap[c].class = "SyndromeVertex" THEN t[1] = c /\ t[2] = c
          ELSE /\ GetAncestorBlossom(heap, t[1]) = GetAncestorBlossom(heap, c)
               /\ GetAncestorBlossom(heap, t[2]) = GetAncestorBlossom(heap, c)

\* the checks of sanity_check on the parent_blossom of node n
SanityParent(heap, itf, n) ==
    LET p == heap[n].parent_blossom
    IN p # None =>
         /\ heap[n].grow_state = "Stay"
         /\ heap[p].class = "Blossom"
         /\ Cardinality({k \in 1..Len(heap[p].nodes_circle) : heap[p].nodes_circle[k] = n}) = 1
         /\ StillTracked(heap, itf, p)

\* DualModuleInterface::sanity_check returns Ok. It walks all of self.nodes, also
\* the slots at and above nodes_length that clear left behind.
SanityCheck(heap, itf) ==
    LET filled == {k \in 1..Len(itf.nodes) : itf.nodes[k] # None}
    IN /\ \A k \in filled :
            LET n == itf.nodes[k]
            IN /\ heap[n].index = k - 1
               /\ heap[n].class = "Blossom" =>
                     \A idx \in 1..Len(heap[n].nodes_circle) :
                        SanityCircleMember(heap, itf, n, idx)
               /\ SanityParent(heap, itf, n)
       /\ \A j, k \in filled :
            (j # k /\ heap[itf.nodes[j]].class = "SyndromeVertex"
                   /\ heap[itf.nodes[k]].class = "SyndromeVertex")
            => heap[itf.nodes[j]].syndrome_index # heap[itf.nodes[k]].syndrome_index
       /\ SumIndividualDualVariable(heap, itf, 1) = itf.sum_dual_variables

NextInterface ==
    \/ \E u \in Interfaces, v \in Vertices : CreateSyndromeNode(u, v)
    \/ \E u \in Interfaces :
          \E c \in NodesCircles(node, interface[u]) :
             \E t \in TouchingChoices(node, c) : CreateBlossomBegin(u, c, t)
    \/ CreateBlossomSetStay
    \/ CreateBlossomSetParent
    \/ CreateBlossomFinish
    \/ \E u \in Interfaces, b \in NodeIds : ExpandBlossomBegin(u, b)
    \/ ExpandBlossomClearParent
    \/ ExpandBlossomSetGrow
    \/ ExpandBlossomFinish
    \/ \E u \in Interfaces, p \in SyndromePatterns : Load(u, p)
    \/ \E u \in Interfaces, n \in NodeIds, gs \in DualNodeGrowState : SetGrowState(u, n, gs)
    \/ \E u \in Interfaces, length \in 1..MaxProgress : Grow(u, length)
    \/ \E u \in Interfaces, length \in 0..MaxProgress, w \in 1..MaxProgress :
          GrowIterative(u, length, w)
    \/ Fuse
    \/ \E u \in Interfaces, n \in NodeIds, v \in VirtualVertices : MatchVirtual(u, n, v)
    \/ BreakMatchingClearMatch
    \/ BreakMatchingSetGrow
    \/ BreakMatchingKeep
    \/ BreakMatchingFinish
    \/ Clear

\* ----------------------------------------------------- the partition tree

\* the units of the largest partition tree: the partitions, then one unit a fusion
Units == 1..(2 * MaxPartitions - 1)

\* the workers of the largest thread pool
Workers == 1..MaxThreads

\* the fusion plans of k partitions: fusion i makes unit k + i out of two
\* earlier units, and every unit but the last is fused exactly once
Fusions(k) ==
    {f \in [1..(k - 1) -> (1..(2 * k - 1)) \X (1..(2 * k - 1))] :
        /\ \A i \in 1..(k - 1) :
              f[i][1] # f[i][2] /\ f[i][1] < k + i /\ f[i][2] < k + i
        /\ \A u \in 1..(2 * k - 2) :
              Cardinality({ij \in (1..(k - 1)) \X (1..2) : f[ij[1]][ij[2]] = u}) = 1}

\* the partition configurations: 1..MaxPartitions partitions and a fusion plan
PartitionConfigs ==
    UNION {{[partitions |-> k, fusions |-> f] : f \in Fusions(k)} : k \in 1..MaxPartitions}

\* partition_info.units.len()
UnitCount == 2 * partition_info.partitions - 1

\* partition_info.units[u].children.is_none()
IsLeaf(u) == u <= partition_info.partitions

\* the units of this tree, and the ones with children
TreeUnits == 1..UnitCount
InternalUnits == {u \in TreeUnits : ~IsLeaf(u)}

\* unit.children, as new_config fills them in
LeftChild(u) == partition_info.fusions[u - partition_info.partitions][1]
RightChild(u) == partition_info.fusions[u - partition_info.partitions][2]

\* self.units.last()
LastUnit == UnitCount

\* is_active as new_wrapper and clear set it: only the leaves are active
LeavesActive == [u \in Units |-> u \in TreeUnits /\ IsLeaf(u)]

InitParallel ==
    /\ partition_info \in PartitionConfigs
    /\ config \in [debug_sequential : BOOLEAN, thread_pool_size : 1..MaxThreads]
    /\ is_active = LeavesActive
    /\ pc = [u \in Units |-> "idle"]
    /\ primal_lock = [u \in Units |-> None]
    /\ dual_lock = [u \in Units |-> None]
    /\ worker = [u \in Units |-> None]
    /\ stack = [w \in Workers |-> <<>>]
    /\ solve_count = [u \in Units |-> 0]
    /\ fused_units = {}
    /\ solves = 0
    /\ steps = [u \in Units |-> <<>>]

\* ------------------------------------------------ tasks of the thread pool

\* the positions of a unit whose solve step is over
Finished == {"returned", "panicked"}

\* parallel_solve is between its call and its return
SolveRunning == pc[LastUnit] \notin ({"idle"} \cup Finished)

\* the unit is the innermost call of the worker that runs it
Running(u) ==
    /\ worker[u] # None
    /\ stack[worker[u]] # <<>>
    /\ stack[worker[u]][Len(stack[worker[u]])] = u

\* a call returns or unwinds: the worker is back in the caller
Pop(w) == [stack EXCEPT ![w] = SubSeq(@, 1, Len(@) - 1)]

\* a call on the worker
Push(w, u) == [stack EXCEPT ![w] = Append(@, u)]

\* a return that keeps the lock
ReleaseLockKeepsIt(lock, u) == lock

\* a lock guard of unit u is dropped, by a return or by unwinding
ReleaseLock(lock, u) == [lock EXCEPT ![u] = None]

\* a join whose closures pass the caller's callback on
HasCallbackUnderJoin(u) == TRUE

\* the callback the unit was handed: the caller's in debug_sequential mode and
\* for the last unit, &mut None for the units under rayon::join
HasCallback(u) == config.debug_sequential \/ u = LastUnit

\* a join that waits for its first closure only
LeftChildDone(u) == pc[LeftChild(u)] \in Finished

\* both closures of the join, or both sequential calls, are over
ChildrenDone(u) == pc[LeftChild(u)] \in Finished /\ pc[RightChild(u)] \in Finished

\* the solve step of unit u has done `step`
Did(u, step) == [steps EXCEPT ![u] = Append(@, step)]

\* a failed assert: the unit unwinds, its guards are dropped
Unwind(u) ==
    /\ pc' = [pc EXCEPT ![u] = "panicked"]
    /\ primal_lock' = ReleaseLock(primal_lock, u)
    /\ dual_lock' = ReleaseLock(dual_lock, u)
    /\ stack' = Pop(worker[u])
    /\ UNCHANGED <<is_active, worker, solve_count, fused_units, steps>>

\* parallel_solve_step_callback: the last unit's step is run inside the pool
ParallelSolve(w) ==
    /\ ~SolveRunning
    /\ solves < MaxSolves
    /\ w <= config.thread_pool_size
    /\ solves' = solves + 1
    /\ pc' = [u \in Units |-> IF u = LastUnit THEN "called" ELSE "idle"]
    /\ worker' = [u \in Units |-> IF u = LastUnit THEN w ELSE None]
    /\ stack' = [v \in Workers |-> IF v = w THEN <<LastUnit>> ELSE <<>>]
    /\ steps' = [u \in Units |-> <<>>]
    /\ UNCHANGED <<varsInterface, varsGroup, partition_info, config, is_active, primal_lock,
                   dual_lock, solve_count, fused_units>>

\* let mut primal_unit = self.write()
LockPrimal(u) ==
    /\ Running(u) /\ pc[u] = "called"
    /\ primal_lock[u] = None
    /\ primal_lock' = [primal_lock EXCEPT ![u] = u]
    /\ pc' = [pc EXCEPT ![u] = "primal_locked"]
    /\ UNCHANGED <<varsInterface, varsGroup, partition_info, config, steps, is_active, dual_lock, worker,
                   stack, solve_count, fused_units, solves>>

\* let mut dual_unit = dual_module_ptr.write()
LockDual(u) ==
    /\ Running(u) /\ pc[u] = "primal_locked"
    /\ dual_lock[u] = None
    /\ dual_lock' = [dual_lock EXCEPT ![u] = u]
    /\ pc' = [pc EXCEPT ![u] = "locked"]
    /\ UNCHANGED <<varsInterface, varsGroup, partition_info, config, steps, is_active, primal_lock, worker,
                   stack, solve_count, fused_units, solves>>

\* a leaf: assert!(primal_unit.is_active), then the serial solve
EnterLeaf(u) ==
    /\ Running(u) /\ pc[u] = "locked"
    /\ IsLeaf(u)
    /\ IF is_active[u]
       THEN /\ pc' = [pc EXCEPT ![u] = "solve"]
            /\ UNCHANGED <<is_active, primal_lock, dual_lock, worker, stack,
                           solve_count, fused_units>>
       ELSE Unwind(u)
    /\ UNCHANGED <<varsInterface, varsGroup, partition_info, config, steps, solves>>

\* a right child that is always handed to the pool as a job
RightChildQueued(position) == "queued"

\* the right child when the left one is called: in debug_sequential mode it
\* waits for its call, under rayon::join it is a job of the pool
RightChildPosition(position) ==
    IF config.debug_sequential THEN position ELSE "queued"

\* a unit with children: assert!(!primal_unit.is_active), then the left child
\* is called on this worker; under rayon::join the right child is a job that
\* waits for a worker, in debug_sequential mode it is called after the left
EnterChildren(u) ==
    /\ Running(u) /\ pc[u] = "locked"
    /\ ~IsLeaf(u)
    /\ IF is_active[u]
       THEN Unwind(u)
       ELSE /\ pc' = [pc EXCEPT
                  ![u] = IF config.debug_sequential THEN "left" ELSE "join",
                  ![LeftChild(u)] = "called",
                  ![RightChild(u)] = RightChildPosition(@)]
            /\ worker' = [worker EXCEPT ![LeftChild(u)] = worker[u]]
            /\ stack' = Push(worker[u], LeftChild(u))
            /\ UNCHANGED <<is_active, primal_lock, dual_lock, solve_count, fused_units>>
    /\ UNCHANGED <<varsInterface, varsGroup, partition_info, config, steps, solves>>

\* debug_sequential: the call of the left child is over, the right is called
CallRight(u) ==
    /\ Running(u) /\ pc[u] = "left"
    /\ pc[LeftChild(u)] \in Finished
    /\ IF pc[LeftChild(u)] = "panicked"
       THEN Unwind(u)
       ELSE /\ pc' = [pc EXCEPT ![u] = "right", ![RightChild(u)] = "called"]
            /\ worker' = [worker EXCEPT ![RightChild(u)] = worker[u]]
            /\ stack' = Push(worker[u], RightChild(u))
            /\ UNCHANGED <<is_active, primal_lock, dual_lock, solve_count, fused_units>>
    /\ UNCHANGED <<varsInterface, varsGroup, partition_info, config, steps, solves>>

\* the worker is in rayon::join, its own closure is over and the other is not
WaitingInJoin(w) ==
    /\ stack[w] # <<>>
    /\ pc[stack[w][Len(stack[w])]] = "join"
    /\ pc[LeftChild(stack[w][Len(stack[w])])] \in Finished

\* rayon: a job waiting for a worker is run by a worker that has nothing to do,
\* or by one that waits in a join (its own job, or one it steals)
RunQueued(w, u) ==
    /\ w <= config.thread_pool_size
    /\ pc[u] = "queued"
    /\ stack[w] = <<>> \/ WaitingInJoin(w)
    /\ pc' = [pc EXCEPT ![u] = "called"]
    /\ worker' = [worker EXCEPT ![u] = w]
    /\ stack' = Push(w, u)
    /\ UNCHANGED <<varsInterface, varsGroup, partition_info, config, steps, is_active, primal_lock,
                   dual_lock, solve_count, fused_units, solves>>

\* the children are over: event_time.children_return; a panic of a child goes on
\* in the parent
ChildrenReturn(u) ==
    /\ Running(u) /\ pc[u] \in {"right", "join"}
    /\ ChildrenDone(u)
    /\ IF pc[LeftChild(u)] = "panicked" \/ pc[RightChild(u)] = "panicked"
       THEN Unwind(u)
       ELSE /\ pc' = [pc EXCEPT ![u] = "deactivate_left"]
            /\ UNCHANGED <<is_active, primal_lock, dual_lock, worker, stack,
                           solve_count, fused_units>>
    /\ UNCHANGED <<varsInterface, varsGroup, partition_info, config, steps, solves>>

\* a loop over the children that leaves the flag as it is
DeactivateKeepsActive(active, child) == active

\* child.is_active = false
Deactivate(active, child) == [active EXCEPT ![child] = FALSE]

\* one child of the loop "set children to inactive": child_ptr.write(), the
\* assert that it is active, and the flag
DeactivateChild(u, child, next) ==
    /\ primal_lock[child] = None
    /\ IF is_active[child]
       THEN /\ is_active' = Deactivate(is_active, child)
            /\ pc' = [pc EXCEPT ![u] = next]
            /\ steps' = Did(u, "deactivate")
            /\ UNCHANGED <<primal_lock, dual_lock, worker, stack, solve_count, fused_units>>
       ELSE /\ Unwind(u)
    /\ UNCHANGED <<varsInterface, varsGroup, partition_info, config, solves>>

DeactivateLeft(u) ==
    /\ Running(u) /\ pc[u] = "deactivate_left"
    /\ DeactivateChild(u, LeftChild(u), "deactivate_right")

DeactivateRight(u) ==
    /\ Running(u) /\ pc[u] = "deactivate_right"
    /\ DeactivateChild(u, RightChild(u), "fuse")

\* a fuse that is followed by break_matching_with_mirror at once
AfterFuseBreaksMatching(u) == "break_matching"

\* what follows primal_unit.fuse: "if let Some(callback) = callback.as_mut()",
\* the callback before the matched pairs are broken
AfterFuse(u) == IF HasCallback(u) THEN "callback" ELSE "break_matching"

\* PrimalModuleParallelUnit::fuse: read_recursive on both children, then the
\* interfaces and the serial modules of the children are fused into the unit's
UnitFuse(u) ==
    /\ Running(u) /\ pc[u] = "fuse"
    /\ primal_lock[LeftChild(u)] = None
    /\ primal_lock[RightChild(u)] = None
    /\ fused_units' = fused_units \cup {u}
    /\ pc' = [pc EXCEPT ![u] = AfterFuse(u)]
    /\ steps' = Did(u, "fuse")
    /\ UNCHANGED <<varsInterface, varsGroup, partition_info, config, is_active, primal_lock,
                   dual_lock, worker, stack, solve_count, solves>>

\* callback(.., None) before the matched pairs are broken
CallbackFused(u) ==
    /\ Running(u) /\ pc[u] = "callback"
    /\ pc' = [pc EXCEPT ![u] = "break_matching"]
    /\ steps' = Did(u, "callback")
    /\ UNCHANGED <<varsInterface, varsGroup, partition_info, config, is_active, primal_lock,
                   dual_lock, worker, stack, solve_count, fused_units, solves>>

\* primal_unit.break_matching_with_mirror
BreakMatchingWithMirror(u) ==
    /\ Running(u) /\ pc[u] = "break_matching"
    /\ pc' = [pc EXCEPT ![u] = "load_syndrome"]
    /\ steps' = Did(u, "break_matching_with_mirror")
    /\ UNCHANGED <<varsInterface, varsGroup, partition_info, config, is_active, primal_lock,
                   dual_lock, worker, stack, solve_count, fused_units, solves>>

\* load_syndrome for the syndrome vertices of the unit's own range
LoadSyndrome(u) ==
    /\ Running(u) /\ pc[u] = "load_syndrome"
    /\ pc' = [pc EXCEPT ![u] = "solve"]
    /\ steps' = Did(u, "load_syndrome")
    /\ UNCHANGED <<varsInterface, varsGroup, partition_info, config, is_active, primal_lock,
                   dual_lock, worker, stack, solve_count, fused_units, solves>>

\* a solve whose end is not told to the callback
AfterSolveFinishes(u) == "finish"

\* what follows the solve: "if let Some(callback) = callback.as_mut()", the
\* callback of the unit's end
AfterSolve(u) == IF HasCallback(u) THEN "callback_done" ELSE "finish"

\* the serial solve of the unit, to its end: solve_step_callback of a leaf,
\* solve_step_callback_interface_loaded of a unit that fused
Solve(u) ==
    /\ Running(u) /\ pc[u] = "solve"
    /\ solve_count' = [solve_count EXCEPT ![u] = @ + 1]
    /\ pc' = [pc EXCEPT ![u] = AfterSolve(u)]
    /\ steps' = Did(u, "solve")
    /\ UNCHANGED <<varsInterface, varsGroup, partition_info, config, is_active, primal_lock,
                   dual_lock, worker, stack, fused_units, solves>>

\* callback(.., None) after the solve
CallbackDone(u) ==
    /\ Running(u) /\ pc[u] = "callback_done"
    /\ pc' = [pc EXCEPT ![u] = "finish"]
    /\ steps' = Did(u, "callback")
    /\ UNCHANGED <<varsInterface, varsGroup, partition_info, config, is_active, primal_lock,
                   dual_lock, worker, stack, solve_count, fused_units, solves>>

\* primal_unit.is_active = true, and the step returns: the guards are dropped
Finish(u) ==
    /\ Running(u) /\ pc[u] = "finish"
    /\ is_active' = [is_active EXCEPT ![u] = TRUE]
    /\ pc' = [pc EXCEPT ![u] = "returned"]
    /\ primal_lock' = ReleaseLock(primal_lock, u)
    /\ dual_lock' = ReleaseLock(dual_lock, u)
    /\ stack' = Pop(worker[u])
    /\ steps' = Did(u, "return")
    /\ UNCHANGED <<varsInterface, varsGroup, partition_info, config, worker, solve_count,
                   fused_units, solves>>

\* a clear that leaves is_active as it is
ClearKeepsActive(active) == active

\* unit.is_active = is_active, for every unit: the leaves
ClearActive(active) == [u \in Units |-> u \in TreeUnits /\ IsLeaf(u)]

\* PrimalModuleParallel::clear: every unit is cleared and only the leaves are
\* active again
ClearUnits ==
    /\ ~SolveRunning
    /\ \A u \in TreeUnits : primal_lock[u] = None
    /\ is_active' = ClearActive(is_active)
    /\ solve_count' = [u \in Units |-> 0]
    /\ fused_units' = {}
    /\ pc' = [u \in Units |-> "idle"]
    /\ worker' = [u \in Units |-> None]
    /\ steps' = [u \in Units |-> <<>>]
    /\ UNCHANGED <<varsInterface, varsGroup, partition_info, config, primal_lock, dual_lock,
                   stack, solves>>

NextParallel ==
    \/ \E w \in Workers : ParallelSolve(w)
    \/ \E u \in TreeUnits : LockPrimal(u)
    \/ \E u \in TreeUnits : LockDual(u)
    \/ \E u \in TreeUnits : EnterLeaf(u)
    \/ \E u \in TreeUnits : EnterChildren(u)
    \/ \E u \in TreeUnits : CallRight(u)
    \/ \E w \in Workers, u \in TreeUnits : RunQueued(w, u)
    \/ \E u \in TreeUnits : ChildrenReturn(u)
    \/ \E u \in TreeUnits : DeactivateLeft(u)
    \/ \E u \in TreeUnits : DeactivateRight(u)
    \/ \E u \in TreeUnits : UnitFuse(u)
    \/ \E u \in TreeUnits : CallbackFused(u)
    \/ \E u \in TreeUnits : BreakMatchingWithMirror(u)
    \/ \E u \in TreeUnits : LoadSyndrome(u)
    \/ \E u \in TreeUnits : Solve(u)
    \/ \E u \in TreeUnits : CallbackDone(u)
    \/ \E u \in TreeUnits : Finish(u)
    \/ ClearUnits

\* ------------------------------------------------ conflicts and their order

\* Weight::MAX, the length of a group nothing was added to
WeightMax == 3

\* the lengths a NonZeroGrow can carry
Lengths == 1..WeightMax

\* the index of the virtual vertex a TouchingVirtual names
VirtualVertexIndex == MaxLength + 1

\* Option::None of a MaxUpdateLength
NoItem == [tag |-> "None", length |-> 0, first |-> <<>>, second |-> <<>>]

\* MaxUpdateLength::NonZeroGrow(length)
NonZeroGrow(length) ==
    [tag |-> "NonZeroGrow", length |-> length, first |-> <<>>, second |-> <<>>]

\* MaxUpdateLength::Conflicting((node_1, touching_1), (node_2, touching_2))
Conflicting(pair_1, pair_2) ==
    [tag |-> "Conflicting", length |-> 0, first |-> pair_1, second |-> pair_2]

\* MaxUpdateLength::TouchingVirtual((node, touching), (virtual_vertex, is_mirror)),
\* is_mirror as 0 or 1
TouchingVirtual(pair, virtual) ==
    [tag |-> "TouchingVirtual", length |-> 0, first |-> pair, second |-> virtual]

\* MaxUpdateLength::BlossomNeedExpand(a)
BlossomNeedExpand(a) ==
    [tag |-> "BlossomNeedExpand", length |-> 0, first |-> <<a>>, second |-> <<>>]

\* MaxUpdateLength::VertexShrinkStop((a, pair)), pair = <<>> for Option::None
VertexShrinkStop(a, pair) ==
    [tag |-> "VertexShrinkStop", length |-> 0, first |-> <<a>>, second |-> pair]

\* MaxUpdateLength::get_vertex_shrink_stop
GetVertexShrinkStop(m) == IF m.tag = "VertexShrinkStop" THEN m.first[1] ELSE None

\* DualNodePtr::get_representative_vertex
GetRepresentativeVertex(heap, n) == heap[GetRepresentativeNode(heap, n)].syndrome_index

\* Ord::cmp of two integers
IntCmp(a, b) == IF a < b THEN "Less" ELSE IF a > b THEN "Greater" ELSE "Equal"

\* Ordering::reverse
Reverse(o) == IF o = "Less" THEN "Greater" ELSE IF o = "Greater" THEN "Less" ELSE "Equal"

\* Ordering::then
Then(o, next) == IF o = "Equal" THEN next ELSE o

\* Ord for DualNodePtr: by the index field
NodeCmp(heap, n1, n2) == IntCmp(heap[n1].index, heap[n2].index)

\* a cmp of Conflicting and TouchingVirtual that forgets to reverse
CmpReversedForward(heap, self, other) ==
    IF self.tag = "Conflicting"
    THEN Then(NodeCmp(heap, self.first[1], other.first[1]),
              NodeCmp(heap, self.second[1], other.second[1]))
    ELSE Then(NodeCmp(heap, self.first[1], other.first[1]),
              IntCmp(self.second[1], other.second[1]))

\* the last two cases of cmp: both TouchingVirtual, or both Conflicting
CmpReversed(heap, self, other) ==
    IF self.tag = "Conflicting"
    THEN Then(Reverse(NodeCmp(heap, self.first[1], other.first[1])),
              Reverse(NodeCmp(heap, self.second[1], other.second[1])))
    ELSE Then(Reverse(NodeCmp(heap, self.first[1], other.first[1])),
              Reverse(IntCmp(self.second[1], other.second[1])))

\* Ord for MaxUpdateLength
Cmp(heap, self, other) ==
    IF self = other THEN "Equal"
    ELSE IF self.tag = "VertexShrinkStop" /\ other.tag # "VertexShrinkStop" THEN "Less"
    ELSE IF self.tag # "VertexShrinkStop" /\ other.tag = "VertexShrinkStop" THEN "Greater"
    ELSE IF self.tag = "VertexShrinkStop"
         THEN NodeCmp(heap, GetVertexShrinkStop(self), GetVertexShrinkStop(other))
    ELSE IF self.tag = "BlossomNeedExpand" /\ other.tag # "BlossomNeedExpand" THEN "Less"
    ELSE IF self.tag # "BlossomNeedExpand" /\ other.tag = "BlossomNeedExpand" THEN "Greater"
    ELSE IF self.tag = "BlossomNeedExpand"
         THEN NodeCmp(heap, self.first[1], other.first[1])
    ELSE IF self.tag = "TouchingVirtual" /\ other.tag # "TouchingVirtual" THEN "Less"
    ELSE IF self.tag # "TouchingVirtual" /\ other.tag = "TouchingVirtual" THEN "Greater"
    ELSE CmpReversed(heap, self, other)

\* ------------------------------------------------- GroupMaxUpdateLength

Groups == {"self", "other"}

\* GroupMaxUpdateLength::NonZeroGrow(length)
GroupNonZeroGrow(length) ==
    [kind |-> "NonZeroGrow", length |-> length, heap |-> EmptyBag,
     pending_stops |-> <<>>]

\* GroupMaxUpdateLength::Conflicts((heap, pending_stops))
GroupConflicts(heap, pending_stops) ==
    [kind |-> "Conflicts", length |-> 0, heap |-> heap, pending_stops |-> pending_stops]

\* GroupMaxUpdateLength::new
GroupNew == GroupNonZeroGrow(WeightMax)

\* BinaryHeap::push
HeapPush(heap, m) == heap (+) SetToBag({m})

\* BTreeMap::insert
MapInsert(map, key, value) ==
    [k \in DOMAIN map \cup {key} |-> IF k = key THEN value ELSE map[k]]

\* BTreeMap::remove
MapRemove(map, key) == [k \in DOMAIN map \ {key} |-> map[k]]

\* BTreeMap::keys().next(): the smallest key
FirstKey(map) == CHOOSE k \in DOMAIN map : \A j \in DOMAIN map : k <= j

\* the test of add_pending_stop that two shrink stops form a Conflicting event
FormsConflicting(heap, pending_stops, m) ==
    /\ m.tag = "VertexShrinkStop"
    /\ GetRepresentativeVertex(heap, GetVertexShrinkStop(m)) \in DOMAIN pending_stops
    /\ m.second # <<>>
    /\ LET existing_length ==
               pending_stops[GetRepresentativeVertex(heap, GetVertexShrinkStop(m))]
       IN /\ existing_length.second # <<>>
          /\ m.second[1] # existing_length.second[1]

\* an add_pending_stop that puts the pair of the pending entry first
AddPendingStopExistingFirst(heap, st, m) ==
    IF FormsConflicting(heap, st.pending_stops, m)
    THEN LET vertex_index == GetRepresentativeVertex(heap, GetVertexShrinkStop(m))
         IN [heap |-> HeapPush(st.heap,
                          Conflicting(st.pending_stops[vertex_index].second, m.second)),
             pending_stops |-> MapRemove(st.pending_stops, vertex_index),
             formed |-> [st.formed EXCEPT ![vertex_index] = @ + 1]]
    ELSE IF m.tag # "VertexShrinkStop" THEN [st EXCEPT !.heap = HeapPush(@, m)]
    ELSE LET vertex_index == GetRepresentativeVertex(heap, GetVertexShrinkStop(m))
         IN IF vertex_index \notin DOMAIN st.pending_stops
               \/ (m.second # <<>> /\ st.pending_stops[vertex_index].second = <<>>)
            THEN [st EXCEPT !.pending_stops = MapInsert(@, vertex_index, m)]
            ELSE st

\* an add_pending_stop that leaves the pending entry in the map
AddPendingStopKeepsEntry(heap, st, m) ==
    IF FormsConflicting(heap, st.pending_stops, m)
    THEN LET vertex_index == GetRepresentativeVertex(heap, GetVertexShrinkStop(m))
         IN [heap |-> HeapPush(st.heap,
                          Conflicting(m.second, st.pending_stops[vertex_index].second)),
             pending_stops |-> st.pending_stops,
             formed |-> [st.formed EXCEPT ![vertex_index] = @ + 1]]
    ELSE IF m.tag # "VertexShrinkStop" THEN [st EXCEPT !.heap = HeapPush(@, m)]
    ELSE LET vertex_index == GetRepresentativeVertex(heap, GetVertexShrinkStop(m))
         IN IF vertex_index \notin DOMAIN st.pending_stops
               \/ (m.second # <<>> /\ st.pending_stops[vertex_index].second = <<>>)
            THEN [st EXCEPT !.pending_stops = MapInsert(@, vertex_index, m)]
            ELSE st

\* GroupMaxUpdateLength::add_pending_stop; st.formed counts, by vertex, the
\* Conflicting events pushed at line 110
AddPendingStop(heap, st, m) ==
    IF m.tag = "VertexShrinkStop"
    THEN LET vertex_index == GetRepresentativeVertex(heap, GetVertexShrinkStop(m))
         IN IF vertex_index \in DOMAIN st.pending_stops
            THEN IF m.second # <<>>
                 THEN IF st.pending_stops[vertex_index].second # <<>>
                      THEN IF m.second[1] # st.pending_stops[vertex_index].second[1]
                           THEN [heap |-> HeapPush(st.heap,
                                     Conflicting(m.second,
                                                 st.pending_stops[vertex_index].second)),
                                 pending_stops |-> MapRemove(st.pending_stops, vertex_index),
                                 formed |-> [st.formed EXCEPT ![vertex_index] = @ + 1]]
                           ELSE st
                      ELSE [st EXCEPT !.pending_stops = MapInsert(@, vertex_index, m)]
                 ELSE st
            ELSE [st EXCEPT !.pending_stops = MapInsert(@, vertex_index, m)]
    ELSE [st EXCEPT !.heap = HeapPush(@, m)]

\* no Conflicting event formed at any vertex
NoneFormed == [v \in Vertices |-> 0]

\* a group and the count of formed events, as add_pending_stop works on them
GroupState(g, count) == [heap |-> g.heap, pending_stops |-> g.pending_stops,
                         formed |-> count]

\* an add that pushes the first shrink stop of a group to the heap
AddFirstStopToHeap(heap, g, m) ==
    IF g.kind = "NonZeroGrow"
    THEN IF m.tag = "NonZeroGrow"
         THEN GroupNonZeroGrow(Min(g.length, m.length))
         ELSE GroupConflicts(HeapPush(EmptyBag, m), <<>>)
    ELSE IF m.tag # "NonZeroGrow"
         THEN LET st == AddPendingStop(heap, GroupState(g, NoneFormed), m)
              IN GroupConflicts(st.heap, st.pending_stops)
         ELSE g

\* an add that takes the length it is given for the minimum
AddTakesLastLength(heap, g, m) ==
    IF g.kind = "NonZeroGrow"
    THEN IF m.tag = "NonZeroGrow"
         THEN GroupNonZeroGrow(m.length)
         ELSE IF m.tag = "VertexShrinkStop"
              THEN GroupConflicts(EmptyBag,
                       MapInsert(<<>>, GetRepresentativeVertex(heap, GetVertexShrinkStop(m)), m))
              ELSE GroupConflicts(HeapPush(EmptyBag, m), <<>>)
    ELSE IF m.tag # "NonZeroGrow"
         THEN LET st == AddPendingStop(heap, GroupState(g, NoneFormed), m)
              IN GroupConflicts(st.heap, st.pending_stops)
         ELSE g

\* GroupMaxUpdateLength::add
Add(heap, g, m) ==
    IF g.kind = "NonZeroGrow"
    THEN IF m.tag = "NonZeroGrow"
         THEN GroupNonZeroGrow(Min(g.length, m.length))
         ELSE IF m.tag = "VertexShrinkStop"
              THEN GroupConflicts(EmptyBag,
                       MapInsert(<<>>, GetRepresentativeVertex(heap, GetVertexShrinkStop(m)), m))
              ELSE GroupConflicts(HeapPush(EmptyBag, m), <<>>)
    ELSE IF m.tag # "NonZeroGrow"
         THEN LET st == AddPendingStop(heap, GroupState(g, NoneFormed), m)
              IN GroupConflicts(st.heap, st.pending_stops)
         ELSE g

\* the count of the events a group formed, after add
AddFormed(heap, g, m, count) ==
    IF g.kind = "Conflicts" /\ m.tag # "NonZeroGrow"
    THEN AddPendingStop(heap, GroupState(g, count), m).formed
    ELSE count

\* GroupMaxUpdateLength::is_empty
IsEmpty(g) == g.kind = "NonZeroGrow" /\ g.length = WeightMax

RECURSIVE ExtendPendingStops(_, _, _)
\* the loop of extend over other_pending_stops, in key order
ExtendPendingStops(heap, st, other_pending_stops) ==
    IF DOMAIN other_pending_stops = {} THEN st
    ELSE ExtendPendingStops(heap,
             AddPendingStop(heap, st, other_pending_stops[FirstKey(other_pending_stops)]),
             MapRemove(other_pending_stops, FirstKey(other_pending_stops)))

\* GroupMaxUpdateLength::extend, with the count of formed events
ExtendState(heap, g, other, count) ==
    IF IsEmpty(other) THEN [group |-> g, formed |-> count]
    ELSE IF g.kind = "NonZeroGrow"
         THEN IF other.kind = "NonZeroGrow"
              THEN [group |-> GroupNonZeroGrow(Min(g.length, other.length)),
                    formed |-> count]
              ELSE [group |-> GroupConflicts(other.heap, other.pending_stops),
                    formed |-> count]
         ELSE IF other.kind = "Conflicts"
              THEN LET st == ExtendPendingStops(heap,
                                 [heap |-> g.heap (+) other.heap,
                                  pending_stops |-> g.pending_stops,
                                  formed |-> count],
                                 other.pending_stops)
                   IN [group |-> GroupConflicts(st.heap, st.pending_stops),
                       formed |-> st.formed]
              ELSE [group |-> g, formed |-> count]

\* the entries of a heap no other entry is greater than
Tops(heap, entries) ==
    {x \in BagToSet(entries) : \A y \in BagToSet(entries) : Cmp(heap, x, y) # "Less"}

\* the argument of Option::or in pop, which is evaluated before or is called:
\* the pending stop of the first key, removed from the map
PopPendingStops(pending_stops) ==
    IF DOMAIN pending_stops # {} THEN MapRemove(pending_stops, FirstKey(pending_stops))
    ELSE pending_stops

\* a pop that takes the pending stops before the heap
PopReturnsPendingFirst(heap, g) ==
    IF DOMAIN g.pending_stops # {} THEN {g.pending_stops[FirstKey(g.pending_stops)]}
    ELSE IF g.heap # EmptyBag THEN Tops(heap, g.heap)
    ELSE {NoItem}

\* GroupMaxUpdateLength::pop: what it can return (BinaryHeap::pop returns a
\* greatest entry)
PopReturns(heap, g) ==
    IF g.heap # EmptyBag THEN Tops(heap, g.heap)
    ELSE IF DOMAIN g.pending_stops # {} THEN {g.pending_stops[FirstKey(g.pending_stops)]}
    ELSE {NoItem}

\* GroupMaxUpdateLength::pop: the group it leaves when it returns x
PopGroup(g, x) ==
    GroupConflicts(IF g.heap # EmptyBag THEN g.heap (-) SetToBag({x}) ELSE g.heap,
                   PopPendingStops(g.pending_stops))

\* GroupMaxUpdateLength::peek: what it can return
PeekReturns(heap, g) ==
    IF g.heap # EmptyBag THEN Tops(heap, g.heap)
    ELSE IF DOMAIN g.pending_stops = {} THEN {NoItem}
    ELSE {g.pending_stops[FirstKey(g.pending_stops)]}

\* the nodes the conflicts are about: the nodes of the loaded syndrome pattern
GroupNodes == 1..allocated

\* the values a backend reports
MaxUpdateLengths ==
    {NonZeroGrow(w) : w \in Lengths}
    \cup {Conflicting(<<ab[1], ab[1]>>, <<ab[2], ab[2]>>) :
              ab \in {x \in GroupNodes \X GroupNodes : x[1] # x[2]}}
    \cup {TouchingVirtual(<<a, a>>, <<VirtualVertexIndex, 0>>) : a \in GroupNodes}
    \cup {BlossomNeedExpand(a) : a \in GroupNodes}
    \cup {VertexShrinkStop(a, <<>>) : a \in GroupNodes}
    \cup {VertexShrinkStop(a, pair) :
              a \in GroupNodes, pair \in {x \in GroupNodes \X GroupNodes : x[1] <= x[2]}}

\* a call on group g: the value it was given or returned, and the group before it
TraceEntry(op, g, m) == [op |-> op, group |-> g, item |-> m, before |-> group[g]]

InitGroup ==
    /\ group = [g \in Groups |-> GroupNew]
    /\ trace = <<>>
    /\ returned = NoItem
    /\ formed = [g \in Groups |-> NoneFormed]

GroupAdd(g, m) ==
    /\ Len(trace) < MaxCalls
    /\ group' = [group EXCEPT ![g] = Add(node, @, m)]
    /\ formed' = [formed EXCEPT ![g] = AddFormed(node, group[g], m, @)]
    /\ trace' = Append(trace, TraceEntry("add", g, m))
    /\ UNCHANGED <<varsInterface, varsParallel, returned>>

\* self.extend(other): other is moved into the call, a new group takes its place
GroupExtend ==
    /\ Len(trace) < MaxCalls
    /\ LET st == ExtendState(node, group["self"], group["other"], formed["self"])
       IN /\ group' = [group EXCEPT !["self"] = st.group, !["other"] = GroupNew]
          /\ formed' = [formed EXCEPT !["self"] = st.formed, !["other"] = NoneFormed]
    /\ trace' = Append(trace, TraceEntry("extend", "self", NoItem))
    /\ UNCHANGED <<varsInterface, varsParallel, returned>>

\* pop panics on a NonZeroGrow group
GroupPop(g) ==
    /\ Len(trace) < MaxCalls
    /\ group[g].kind = "Conflicts"
    /\ \E x \in PopReturns(node, group[g]) :
          /\ returned' = x
          /\ group' = [group EXCEPT ![g] = PopGroup(@, x)]
          /\ trace' = Append(trace, TraceEntry("pop", g, x))
    /\ UNCHANGED <<varsInterface, varsParallel, formed>>

\* peek panics on a NonZeroGrow group
GroupPeek(g) ==
    /\ Len(trace) < MaxCalls
    /\ group[g].kind = "Conflicts"
    /\ \E x \in PeekReturns(node, group[g]) :
          /\ returned' = x
          /\ trace' = Append(trace, TraceEntry("peek", g, x))
    /\ UNCHANGED <<varsInterface, varsParallel, group, formed>>

NextGroup ==
    \/ \E g \in Groups, m \in MaxUpdateLengths : GroupAdd(g, m)
    \/ GroupExtend
    \/ \E g \in Groups : GroupPop(g)
    \/ \E g \in Groups : GroupPeek(g)

\* the syndrome pattern the conflicts are computed for: every vertex
GroupPattern == [i \in 1..MaxNodes |-> i]

\* a unit that has loaded its syndrome pattern and has not begun to solve
InitGroupNodes ==
    /\ node = LoadHeap([n \in NodeIds |-> Unallocated], NewEmpty, 1, GroupPattern)
    /\ allocated = MaxNodes
    /\ interface = [u \in Interfaces |->
                       IF u = "self" THEN LoadInterface(NewEmpty, 1, GroupPattern)
                       ELSE NewEmpty]
    /\ call = Idle
    /\ fuses = 0
    /\ fused = FALSE
    /\ temporary_match = [n \in NodeIds |-> NoMatch]
    /\ possible_break = [u \in Interfaces |-> <<>>]
    /\ history = Assigned(NoHistory, "self", [k \in 1..Len(GroupPattern) |-> k - 1])

\* a single unit, or two units and the unit that fuses them, with the default
\* configuration, before any solve
TreeAtRest ==
    /\ InitParallel
    /\ partition_info \in {[partitions |-> 1, fusions |-> <<>>],
                          [partitions |-> 2, fusions |-> <<<<1, 2>>>>]}
    /\ config = [debug_sequential |-> FALSE, thread_pool_size |-> 1]

\* the interfaces on their own: the partition tree is at rest
Init == InitInterface /\ TreeAtRest /\ InitGroup

Spec == Init /\ [][NextInterface]_vars

\* the partition tree on its own: the interfaces are left alone
InitTree == InitInterface /\ InitParallel /\ InitGroup

\* the workers of the pool keep running the tasks of a solve that has begun
SpecParallel ==
    InitTree /\ [][NextParallel]_vars /\ WF_vars(SolveRunning /\ NextParallel)

\* the conflict groups on their own: the interface and the tree are at rest
InitConflicts ==
    InitGroupNodes /\ TreeAtRest /\ partition_info.partitions = 1 /\ InitGroup

SpecGroup == InitConflicts /\ [][NextGroup]_vars

\* grow_iterative followed turn by turn, on the interface of a single unit
NextGrow ==
    \/ \E v \in Vertices : CreateSyndromeNode("self", v)
    \/ \E n \in NodeIds, gs \in DualNodeGrowState : SetGrowState("self", n, gs)
    \/ \E length \in 1..MaxProgress : Grow("self", length)
    \/ \E length \in 0..MaxIterative : GrowIterativeBegin("self", length)
    \/ \E w \in SafeGrowths : GrowIterativeLoop(w)
    \/ GrowIterativeFinish

InitGrow == Init /\ partition_info.partitions = 1

SpecGrow == InitGrow /\ [][NextGrow]_vars

\* break_matching_with_mirror on the possible breaks of two children whose
\* serial modules match nodes to virtual vertices and give matches up
NextBreak ==
    \/ \E u \in Interfaces, v \in Vertices : CreateSyndromeNode(u, v)
    \/ \E u \in Interfaces, n \in NodeIds, v \in VirtualVertices : MatchVirtual(u, n, v)
    \/ \E u \in Interfaces, n \in NodeIds : Unmatch(u, n)
    \/ Fuse
    \/ BreakMatchingClearMatch
    \/ BreakMatchingSetGrow
    \/ BreakMatchingKeep
    \/ BreakMatchingFinish

InitBreak == Init /\ partition_info.partitions = 2

SpecBreak == InitBreak /\ [][NextBreak]_vars

\* ------------------------- set_grow_state and the backend's call, by step

\* a set_grow_state that sets the node before it tells the backend
SetGrowStateOrderNodeFirst == <<"refresh", "set", "backend">>

\* the statements of DualModuleInterface::set_grow_state, in order: the update
\* of sum_grow_speed and of the cache, dual_module_impl.set_grow_state, then
\* dual_node_ptr.set_grow_state
SetGrowStateOrder == <<"refresh", "backend", "set">>

\* the statement after `stage`, or the return
NextStage(stage) ==
    LET k == CHOOSE j \in 1..Len(SetGrowStateOrder) : SetGrowStateOrder[j] = stage
    IN IF k < Len(SetGrowStateOrder) THEN SetGrowStateOrder[k + 1] ELSE "return"

\* self.set_grow_state(n, grow_state) is entered
EnterSetGrowState(h, n, grow_state) ==
    [h EXCEPT !.backend = [@ EXCEPT !.node = n, !.prior = node[n].grow_state,
                                    !.requested = grow_state, !.seen = "none"]]

\* an operation of the interface is called: the heap and the interface as they
\* are, no backend call yet
EnterOperation(h, u) ==
    [h EXCEPT !.backend = [NotCalled EXCEPT !.heap = node, !.itf = interface[u]]]

\* set_grow_state called on the interface
SetGrowStateCall(u, n, grow_state) ==
    /\ call.op = "idle"
    /\ Operable(u)
    /\ n \in TrackedNodes(interface[u])
    /\ node[n].parent_blossom = None
    /\ temporary_match[n] = NoMatch
    /\ call' = [Idle EXCEPT !.op = "set_grow_state", !.interface = u, !.circle = <<n>>,
                            !.i = 1, !.stage = SetGrowStateOrder[1]]
    /\ history' = EnterSetGrowState(EnterOperation(history, u), n, grow_state)
    /\ UNCHANGED <<varsParallel, varsGroup, node, allocated, interface, fuses, fused, varsPrimal>>

\* the circles a caller may hand to create_blossom: any nodes of the interface
AnyCircles(itf) == UNION {[1..m -> TrackedNodes(itf)] : m \in 1..MaxCircle}

\* create_blossom called with any circle, up to its loop
CreateBlossomCall(u, c) ==
    /\ call.op = "idle"
    /\ Operable(u)
    /\ allocated < NodeBudget
    /\ interface[u].nodes_length < MaxLength
    /\ c \in AnyCircles(interface[u])
    /\ node' = [node EXCEPT ![allocated + 1] =
          [index |-> interface[u].nodes_length, class |-> "Blossom",
           syndrome_index |-> None, nodes_circle |-> <<>>, touching_children |-> <<>>,
           grow_state |-> "Grow", parent_blossom |-> None,
           dual_variable_cache |-> <<0, interface[u].dual_variable_global_progress>>]]
    /\ allocated' = allocated + 1
    /\ call' = [op |-> "create_blossom", interface |-> u, blossom |-> allocated + 1,
                circle |-> c, touching |-> DefaultTouching(c, <<>>),
                i |-> 1, stage |-> "set_state", possible_break |-> <<>>]
    /\ history' = [EnterOperation(history, u) EXCEPT !.created = NotCreated]
    /\ UNCHANGED <<varsParallel, varsGroup, interface, fuses, fused, varsPrimal>>

\* one member of the loop of create_blossom: the two asserts on the member,
\* then self.set_grow_state(node_ptr, Stay) is entered; a failed assert unwinds
CreateBlossomCheck ==
    /\ call.op = "create_blossom" /\ call.stage = "set_state"
    /\ call.i <= Len(call.circle)
    /\ IF /\ node[call.circle[call.i]].parent_blossom = None
          /\ node[call.circle[call.i]].grow_state =
                (IF (call.i - 1) % 2 = 0 THEN "Grow" ELSE "Shrink")
       THEN /\ call' = [call EXCEPT !.stage = SetGrowStateOrder[1]]
            /\ history' = EnterSetGrowState(history, call.circle[call.i], "Stay")
       ELSE /\ call' = [call EXCEPT !.op = "panicked"]
            /\ UNCHANGED history
    /\ UNCHANGED <<varsParallel, varsGroup, node, allocated, interface, fuses, fused, varsPrimal>>

\* expand_blossom and break_matching_with_mirror enter
\* self.set_grow_state(node_ptr, Grow)
CallSetGrowState ==
    /\ call.op \in {"expand_blossom", "break_matching"} /\ call.stage = "set_state"
    /\ node[call.circle[call.i]].parent_blossom = None
    /\ call' = [call EXCEPT !.stage = SetGrowStateOrder[1]]
    /\ history' = EnterSetGrowState(history, call.circle[call.i], "Grow")
    /\ UNCHANGED <<varsParallel, varsGroup, node, allocated, interface, fuses, fused, varsPrimal>>

\* set_grow_state: the update of sum_grow_speed and of the cache
SetGrowStateRefresh ==
    /\ call.stage = "refresh"
    /\ interface' = [interface EXCEPT ![call.interface] =
          SetGrowStateSpeed(node, @, history.backend.node, history.backend.requested)]
    /\ node' = [node EXCEPT ![history.backend.node].dual_variable_cache =
          <<GetDualVariable(node[history.backend.node], interface[call.interface]),
            interface[call.interface].dual_variable_global_progress>>]
    /\ call' = [call EXCEPT !.stage = NextStage("refresh")]
    /\ UNCHANGED <<varsParallel, varsGroup, history, allocated, fuses, fused, varsPrimal>>

\* set_grow_state: dual_module_impl.set_grow_state(&dual_node_ptr, grow_state);
\* the backend sees the node as it is now
SetGrowStateBackend ==
    /\ call.stage = "backend"
    /\ history' = [history EXCEPT
          !.backend.seen = node[history.backend.node].grow_state,
          !.backend.calls = @ + 1]
    /\ call' = [call EXCEPT !.stage = NextStage("backend")]
    /\ UNCHANGED <<varsParallel, varsGroup, node, allocated, interface, fuses, fused, varsPrimal>>

\* set_grow_state: dual_node_ptr.set_grow_state(grow_state)
SetGrowStateNode ==
    /\ call.stage = "set"
    /\ node' = [node EXCEPT ![history.backend.node].grow_state = history.backend.requested]
    /\ call' = [call EXCEPT !.stage = NextStage("set")]
    /\ UNCHANGED <<varsParallel, varsGroup, history, allocated, interface, fuses, fused, varsPrimal>>

\* set_grow_state returns to its caller, which goes on
SetGrowStateReturn ==
    /\ call.stage = "return"
    /\ call' = CASE call.op = "create_blossom" -> [call EXCEPT !.stage = "set_parent"]
                 [] call.op = "expand_blossom" ->
                        [call EXCEPT !.stage = "clear_parent", !.i = @ + 1]
                 [] call.op = "break_matching" ->
                        [call EXCEPT !.stage = "match", !.i = @ + 1]
                 [] OTHER -> Idle
    /\ UNCHANGED <<varsParallel, varsGroup, history, node, allocated, interface, fuses, fused,
                   varsPrimal>>

\* the operations that change grow states, set_grow_state followed statement
\* by statement and create_blossom called with any circle
NextBackend ==
    \/ \E u \in Interfaces, v \in Vertices : CreateSyndromeNode(u, v)
    \/ \E u \in Interfaces, n \in NodeIds, gs \in DualNodeGrowState : SetGrowStateCall(u, n, gs)
    \/ \E u \in Interfaces : \E c \in AnyCircles(interface[u]) : CreateBlossomCall(u, c)
    \/ CreateBlossomCheck
    \/ CreateBlossomSetParent
    \/ CreateBlossomFinish
    \/ \E u \in Interfaces, b \in NodeIds : ExpandBlossomBegin(u, b)
    \/ ExpandBlossomClearParent
    \/ ExpandBlossomFinish
    \/ CallSetGrowState
    \/ SetGrowStateRefresh
    \/ SetGrowStateBackend
    \/ SetGrowStateNode
    \/ SetGrowStateReturn
    \/ \E u \in Interfaces, n \in NodeIds, v \in VirtualVertices : MatchVirtual(u, n, v)
    \/ Fuse
    \/ BreakMatchingClearMatch
    \/ BreakMatchingKeep
    \/ BreakMatchingFinish

SpecBackend == Init /\ [][NextBackend]_vars

\* ------------------------------- the syndrome pattern of a parallel solve

\* the vertices a unit owns: the two children a range each, the fusing unit the
\* vertices between them
OwningRange(u) ==
    CASE u = "left" -> {1}
      [] u = "right" -> {MaxLength}
      [] OTHER -> Vertices \ {1, MaxLength}

\* the units of the tree that load syndrome vertices
LoadingUnits == IF partition_info.partitions = 1 THEN {"self"} ELSE Interfaces

\* PartitionedSyndromePattern: the syndrome vertices of the pattern that unit
\* u loads, in order: all of them without partitions (expand), else those of
\* its range (partition)
SyndromeRange(u, pattern) ==
    IF partition_info.partitions = 1 THEN pattern
    ELSE SelectSeq(pattern, LAMBDA v : v \in OwningRange(u))

\* the syndrome patterns: distinct vertices in increasing order
AllSyndromePatterns ==
    {p \in UNION {[1..m -> Vertices] : m \in 0..MaxNodes} :
        \A j, k \in 1..Len(p) : j < k => p[j] < p[k]}

\* parallel_solve is called with a syndrome pattern, the units being cleared
SolveBegin(pattern) ==
    /\ call.op = "idle"
    /\ history.solve.state = "none"
    /\ allocated = 0
    /\ history' = [history EXCEPT
          !.solve = [state |-> "running", pattern |-> pattern, loaded |-> {}]]
    /\ UNCHANGED <<varsParallel, varsGroup, node, allocated, interface, call, fuses, fused,
                   varsPrimal>>

\* load_syndrome for the vertices of the unit: a leaf for those of its range,
\* the fusing unit, once it fused and broke the matchings, for those between
\* the ranges of its children
LoadSyndromeRange(u) ==
    /\ call.op = "idle"
    /\ history.solve.state = "running"
    /\ u \in LoadingUnits \ history.solve.loaded
    /\ Operable(u)
    /\ LET pattern == SyndromeRange(u, history.solve.pattern)
       IN /\ allocated + Len(pattern) <= NodeBudget
          /\ interface[u].nodes_length + Len(pattern) <= MaxLength
          /\ node' = LoadHeap(node, interface[u], allocated + 1, pattern)
          /\ interface' = [interface EXCEPT ![u] = LoadInterface(@, allocated + 1, pattern)]
          /\ allocated' = allocated + Len(pattern)
          /\ history' = [Assigned(history, u,
                            [k \in 1..Len(pattern) |-> node'[allocated + k].index])
                         EXCEPT !.solve.loaded = @ \cup {u}]
    /\ UNCHANGED <<varsParallel, varsGroup, call, fuses, fused, varsPrimal>>

\* the children have loaded and solved: the unit fuses them
SolveFuse ==
    /\ history.solve.state = "running"
    /\ {"left", "right"} \subseteq history.solve.loaded
    /\ Fuse

\* a parallel solve: the leaves load their syndrome vertices and solve (grow
\* states, blossoms, matches to virtual vertices), the unit above them fuses,
\* breaks the matchings, loads its own vertices and solves
NextSyndrome ==
    \/ \E p \in AllSyndromePatterns : SolveBegin(p)
    \/ \E u \in Interfaces : LoadSyndromeRange(u)
    \/ \E u \in Interfaces, n \in NodeIds, gs \in DualNodeGrowState : SetGrowState(u, n, gs)
    \/ \E u \in Interfaces :
          \E c \in NodesCircles(node, interface[u]) :
             \E t \in TouchingChoices(node, c) : CreateBlossomBegin(u, c, t)
    \/ CreateBlossomSetStay
    \/ CreateBlossomSetParent
    \/ CreateBlossomFinish
    \/ \E u \in Interfaces, b \in NodeIds : ExpandBlossomBegin(u, b)
    \/ ExpandBlossomClearParent
    \/ ExpandBlossomSetGrow
    \/ ExpandBlossomFinish
    \/ \E u \in Interfaces, n \in NodeIds, v \in VirtualVertices : MatchVirtual(u, n, v)
    \/ SolveFuse
    \/ BreakMatchingClearMatch
    \/ BreakMatchingSetGrow
    \/ BreakMatchingKeep
    \/ BreakMatchingFinish

SpecSyndrome == Init /\ [][NextSyndrome]_vars

\* -------------------------------------------- properties of the interface

RECURSIVE SumTrackedDualVariable(_, _, _)
\* the sum of get_dual_variable over the non-empty slots k.. below nodes_length
SumTrackedDualVariable(heap, itf, k) ==
    IF k > itf.nodes_length THEN 0
    ELSE (IF itf.nodes[k] = None THEN 0 ELSE GetDualVariable(heap[itf.nodes[k]], itf))
         + SumTrackedDualVariable(heap, itf, k + 1)

\* C1: between operations, on every interface that is operated on (a child
\* not yet fused, the parent once it fused), sum_dual_variables is the sum of
\* the dual variables of the tracked nodes
SumDualVariablesIsTrackedSum ==
    call.op = "idle" =>
        \A u \in Interfaces :
            Operable(u) =>
                interface[u].sum_dual_variables = SumTrackedDualVariable(node, interface[u], 1)

\* C2: an operation that returns leaves every interface it changed in a state
\* where sanity_check returns Ok
SanityCheckAfterOperation ==
    [][\A u \in Interfaces :
          (call'.op = "idle" /\ Operable(u)' /\ interface'[u] # interface[u])
          => SanityCheck(node', interface'[u])]_varsInterface

\* C3: in every state, the steps inside create_blossom, expand_blossom and
\* break_matching_with_mirror included, a dual node with a parent_blossom has
\* grow_state Stay
ParentBlossomImpliesStay ==
    \A n \in NodeIds : node[n].parent_blossom # None => node[n].grow_state = "Stay"

\* C3, its case: create_blossom has set the parent of the first member of
\* the circle and has not returned yet
InsideCreateBlossomWithParentSet ==
    /\ call.op = "create_blossom"
    /\ call.i > 1
    /\ node[call.circle[1]].parent_blossom = call.blossom

\* C4: between operations, every member of the circle of a blossom that an
\* interface tracks has that blossom as parent_blossom and grow_state Stay
TrackedBlossomHoldsItsCircle ==
    call.op = "idle" =>
        \A u \in Interfaces :
            \A b \in TrackedNodes(interface[u]) :
                node[b].class = "Blossom" =>
                    \A k \in 1..Len(node[b].nodes_circle) :
                        /\ node[node[b].nodes_circle[k]].parent_blossom = b
                        /\ node[node[b].nodes_circle[k]].grow_state = "Stay"

\* C5: in every state, every non-empty slot i below nodes_length of every
\* interface holds a node whose index field is i
SlotHoldsNodeOfItsIndex ==
    \A u \in Interfaces :
        \A k \in 1..interface[u].nodes_length :
            interface[u].nodes[k] # None => node[interface[u].nodes[k]].index = k - 1

\* --------------------------------------- properties of the partition tree

\* C6: while a unit deactivates its children and fuses, the solve step of
\* each child has returned after one serial solve; when it starts to
\* deactivate them, both children are active, as their steps left them
FuseAfterChildrenSolved ==
    \A p \in InternalUnits :
        /\ pc[p] \in {"deactivate_left", "deactivate_right", "fuse"} =>
              /\ pc[LeftChild(p)] = "returned" /\ solve_count[LeftChild(p)] = 1
              /\ pc[RightChild(p)] = "returned" /\ solve_count[RightChild(p)] = 1
        /\ pc[p] = "deactivate_left" => is_active[LeftChild(p)] /\ is_active[RightChild(p)]

\* C6, its case: a unit is about to fuse children that ran on two workers
FusingChildrenOfTwoWorkers ==
    \E p \in InternalUnits :
        pc[p] = "fuse" /\ worker[LeftChild(p)] # worker[RightChild(p)]

\* C7: after construction and after clear exactly the leaves are active; a
\* unit with children is active only once it fused and solved; the children
\* of a unit that is fusing or has fused are inactive
IsActiveProtocol ==
    /\ (\A u \in TreeUnits : pc[u] = "idle") => is_active = LeavesActive
    /\ \A p \in InternalUnits :
          /\ is_active[p] => p \in fused_units /\ solve_count[p] = 1
          /\ (pc[p] = "fuse" \/ p \in fused_units) =>
                ~is_active[LeftChild(p)] /\ ~is_active[RightChild(p)]

\* C7, its case: the last unit of a tree of several units has completed and
\* is the active one
LastUnitActiveAfterFusing ==
    /\ InternalUnits # {}
    /\ pc[LastUnit] = "returned"
    /\ is_active[LastUnit]

\* C8: no unit runs its serial solve a second time without a clear in between
NoSecondSolveWithoutClear ==
    \A u \in TreeUnits : solve_count[u] <= 1

\* the unit waits for a write lock, or a read lock, that is held
BlockedOnLock(u) ==
    \/ pc[u] = "called" /\ primal_lock[u] # None
    \/ pc[u] = "primal_locked" /\ dual_lock[u] # None
    \/ pc[u] = "deactivate_left" /\ primal_lock[LeftChild(u)] # None
    \/ pc[u] = "deactivate_right" /\ primal_lock[RightChild(u)] # None
    \/ pc[u] = "fuse" /\ (primal_lock[LeftChild(u)] # None \/ primal_lock[RightChild(u)] # None)

\* the units whose step has begun and is not over
Unfinished == {u \in TreeUnits : pc[u] \notin ({"idle"} \cup Finished)}

\* not every unfinished unit is blocked on a lock
NoLockDeadlock == ~(Unfinished # {} /\ \A u \in Unfinished : BlockedOnLock(u))

\* C9: in no state are all unfinished units blocked on a lock, and a
\* parallel_solve that has begun comes to its end
ParallelSolveNeverDeadlocks ==
    []NoLockDeadlock /\ (SolveRunning ~> ~SolveRunning)

\* C9, its case: two units are in their serial solves on two workers, each
\* holding the locks of its primal and of its dual unit
TwoUnitsSolveAtOnce ==
    \E u, v \in TreeUnits :
        /\ u # v /\ worker[u] # worker[v]
        /\ pc[u] = "solve" /\ primal_lock[u] = u /\ dual_lock[u] = u
        /\ pc[v] = "solve" /\ primal_lock[v] = v /\ dual_lock[v] = v

\* C10 as stated: a unit with children holds the lock of its primal or of its
\* dual unit only when both children have returned and are inactive
ExclusiveAccessOnlyAfterChildren ==
    \A p \in InternalUnits :
        (primal_lock[p] = p \/ dual_lock[p] = p) =>
            /\ pc[LeftChild(p)] = "returned" /\ ~is_active[LeftChild(p)]
            /\ pc[RightChild(p)] = "returned" /\ ~is_active[RightChild(p)]

\* C10, amended: a unit with children holds both locks from before its
\* children start until its step is over, and it is past the deactivation of
\* its children only when both have returned and are inactive
ExclusiveAccessAcrossChildren ==
    \A p \in InternalUnits :
        /\ pc[p] \in {"left", "right", "join", "deactivate_left", "deactivate_right",
                      "fuse", "callback", "break_matching", "load_syndrome", "solve",
                      "callback_done", "finish"} =>
              primal_lock[p] = p /\ dual_lock[p] = p
        /\ pc[p] \in {"fuse", "callback", "break_matching", "load_syndrome", "solve",
                      "callback_done", "finish"} =>
              /\ pc[LeftChild(p)] = "returned" /\ ~is_active[LeftChild(p)]
              /\ pc[RightChild(p)] = "returned" /\ ~is_active[RightChild(p)]

\* C10, its case: a unit holds both locks while its left child is solving
LocksHeldWhileChildSolves ==
    \E p \in InternalUnits :
        /\ pc[p] = "join"
        /\ primal_lock[p] = p /\ dual_lock[p] = p
        /\ pc[LeftChild(p)] = "solve"

\* --------------------------------------- properties of the conflict groups

\* the last call made on the groups
LastCall == trace[Len(trace)]

\* a shrink stop that carries a pair
StopWithPair(m) == m.tag = "VertexShrinkStop" /\ m.second # <<>>

\* the vertex a shrink stop is reported at
StopVertex(m) == GetRepresentativeVertex(node, GetVertexShrinkStop(m))

\* the last two calls added, to group g, two shrink stops with pairs of
\* different first nodes at the same vertex
TwoStopsAdded(g) ==
    /\ Len(trace) >= 2
    /\ trace[Len(trace) - 1].op = "add" /\ trace[Len(trace) - 1].group = g
    /\ LastCall.op = "add" /\ LastCall.group = g
    /\ StopWithPair(trace[Len(trace) - 1].item)
    /\ StopWithPair(LastCall.item)
    /\ StopVertex(trace[Len(trace) - 1].item) = StopVertex(LastCall.item)
    /\ trace[Len(trace) - 1].item.second[1] # LastCall.item.second[1]

\* C11: on a group, after add(VertexShrinkStop(_, Some(p))) at vertex v and
\* then add(VertexShrinkStop(_, Some(q))) at v with p.0 # q.0, peek returns
\* Conflicting(p, q), p first and q second, and the pending entry of v is gone
ShrinkStopRendezvousFirstPairFirst ==
    \A g \in Groups :
        TwoStopsAdded(g) =>
            /\ PeekReturns(node, group[g]) =
                   {Conflicting(trace[Len(trace) - 1].item.second, LastCall.item.second)}
            /\ StopVertex(LastCall.item) \notin DOMAIN group[g].pending_stops

\* the two stops were added to a group that held no heap entry and no pending
\* stop of their vertex
TwoStopsAddedToFreeVertex(g) ==
    /\ TwoStopsAdded(g)
    /\ trace[Len(trace) - 1].before.heap = EmptyBag
    /\ StopVertex(LastCall.item) \notin DOMAIN trace[Len(trace) - 1].before.pending_stops

\* C11 as amended: on a group with an empty heap and no pending stop of v,
\* after the two adds peek returns Conflicting(q, p), the pair added last
\* first, and the pending entry of v is gone
ShrinkStopRendezvousLastPairFirst ==
    \A g \in Groups :
        TwoStopsAddedToFreeVertex(g) =>
            /\ PeekReturns(node, group[g]) =
                   {Conflicting(LastCall.item.second, trace[Len(trace) - 1].item.second)}
            /\ StopVertex(LastCall.item) \notin DOMAIN group[g].pending_stops

\* C11 witness: two such stops were added after another pending stop
RendezvousBesideAnotherStop ==
    /\ TwoStopsAddedToFreeVertex("self")
    /\ DOMAIN trace[Len(trace) - 1].before.pending_stops # {}

\* every call so far was an add of a conflict to "self"
OnlyConflictsAdded ==
    \A i \in 1..Len(trace) :
        trace[i].op = "add" /\ trace[i].group = "self" /\ trace[i].item.tag # "NonZeroGrow"

RECURSIVE AddAll(_, _, _)
\* the group after adding items[k], items[k + 1], ... to g
AddAll(g, items, k) ==
    IF k > Len(items) THEN g ELSE AddAll(Add(node, g, items[k]), items, k + 1)

RECURSIVE PopAll(_)
\* the items popped from g until pop returns None
PopAll(g) ==
    IF g.kind = "NonZeroGrow" THEN <<>>
    ELSE LET x == CHOOSE y \in PopReturns(node, g) : TRUE
         IN IF x = NoItem THEN <<>> ELSE <<x>> \o PopAll(PopGroup(g, x))

\* two sequences of popped items that differ only in items cmp finds Equal
SameUpToTies(s, t) ==
    /\ Len(s) = Len(t)
    /\ \A i \in 1..Len(s) : Cmp(node, s[i], t[i]) = "Equal"

\* adding the conflicts of the trace in every order gives the same pops
SamePopsInEveryOrder ==
    LET items == [i \in 1..Len(trace) |-> trace[i].item]
    IN \A perm \in Permutations(1..Len(trace)) :
          SameUpToTies(PopAll(AddAll(GroupNew, items, 1)),
                       PopAll(AddAll(GroupNew, [i \in 1..Len(trace) |-> items[perm[i]]], 1)))

\* C12: adding a multiset of conflicts to an empty group in any permutation
\* and popping until empty yields the same sequence of items, up to ties
PopsIndependentOfAddOrder ==
    OnlyConflictsAdded => SamePopsInEveryOrder

\* no two of the added shrink stops are at one vertex with pairs of different
\* first nodes
NoRendezvousAmongAdded ==
    \A i \in 1..Len(trace), j \in 1..Len(trace) :
        (/\ StopWithPair(trace[i].item) /\ StopWithPair(trace[j].item)
         /\ StopVertex(trace[i].item) = StopVertex(trace[j].item))
        => trace[i].item.second[1] = trace[j].item.second[1]

\* C12 as amended: the same, for a multiset in which no two shrink stops at
\* one vertex carry pairs with different first nodes
PopsIndependentOfAddOrderWithoutRendezvous ==
    (OnlyConflictsAdded /\ NoRendezvousAmongAdded) => SamePopsInEveryOrder

\* C12 witness: three conflicts of three tags, a shrink stop among them, were
\* added lowest rank first
ThreeTagsAddedLowestFirst ==
    /\ OnlyConflictsAdded /\ NoRendezvousAmongAdded
    /\ Len(trace) = 3
    /\ trace[1].item.tag = "VertexShrinkStop"
    /\ trace[2].item.tag = "BlossomNeedExpand"
    /\ trace[3].item.tag = "Conflicting"

\* the rank of a tag, highest first
Rank(tag) ==
    CASE tag = "Conflicting" -> 4
      [] tag = "TouchingVirtual" -> 3
      [] tag = "BlossomNeedExpand" -> 2
      [] tag = "VertexShrinkStop" -> 1
      [] OTHER -> 0

\* the conflicts a group holds
Held(g) == BagToSet(g.heap) \cup {g.pending_stops[v] : v \in DOMAIN g.pending_stops}

\* C13: a pop never returns a conflict of a lower-ranked tag while the group
\* holds one of a higher-ranked tag (Conflicting > TouchingVirtual >
\* BlossomNeedExpand > VertexShrinkStop), and among Conflicting and among
\* TouchingVirtual conflicts the smaller dual-node index is popped first
PopsHighestRankSmallestIndex ==
    (Len(trace) > 0 /\ LastCall.op = "pop") =>
        \A y \in Held(LastCall.before) :
            /\ Rank(y.tag) <= Rank(LastCall.item.tag)
            /\ (y.tag = LastCall.item.tag /\ y.tag \in {"Conflicting", "TouchingVirtual"})
               => node[LastCall.item.first[1]].index <= node[y.first[1]].index

\* C13 witness: a pop returned the Conflicting of the smaller index from a
\* group that also held a Conflicting of a larger index and a lower tag
PoppedAmongTwoConflicting ==
    /\ Len(trace) > 0 /\ LastCall.op = "pop"
    /\ LastCall.item.tag = "Conflicting"
    /\ \E y \in Held(LastCall.before) :
          y.tag = "Conflicting" /\ node[y.first[1]].index > node[LastCall.item.first[1]].index
    /\ \E y \in Held(LastCall.before) : Rank(y.tag) < 4

\* every call so far was an add
OnlyAdds == \A i \in 1..Len(trace) : trace[i].op = "add"

\* the added values of group g, oldest first
AddedTo(g) == SelectSeq(trace, LAMBDA e : e.group = g)

RECURSIVE MinLength(_, _)
\* the minimum of Weight::MAX and the lengths of calls[k], calls[k + 1], ...
MinLength(calls, k) ==
    IF k > Len(calls) THEN WeightMax
    ELSE Min(calls[k].item.length, MinLength(calls, k + 1))

\* C14: over a sequence of add calls on a new group: while only NonZeroGrow
\* values were added the group is NonZeroGrow(w), w the minimum of the added
\* lengths (Weight::MAX when none); the first other addition makes it
\* Conflicts; it then stays Conflicts, and a later NonZeroGrow addition
\* leaves the heap and the pending-stop map unchanged
GroupFollowsItsAdditions ==
    OnlyAdds =>
        \A g \in Groups :
            LET calls == AddedTo(g)
            IN /\ (\A i \in 1..Len(calls) : calls[i].item.tag = "NonZeroGrow")
                  => group[g] = GroupNonZeroGrow(MinLength(calls, 1))
               /\ (\E i \in 1..Len(calls) : calls[i].item.tag # "NonZeroGrow")
                  => group[g].kind = "Conflicts"
               /\ \A i \in 1..Len(calls) :
                     /\ (\E j \in 1..(i - 1) : calls[j].item.tag # "NonZeroGrow")
                        => calls[i].before.kind = "Conflicts"
                     /\ (calls[i].before.kind = "Conflicts" /\ calls[i].item.tag = "NonZeroGrow")
                        => (IF i = Len(calls) THEN group[g] ELSE calls[i + 1].before)
                           = calls[i].before

\* C14 witness: two lengths, then a conflict, then a length were added
LengthAddedAfterConflict ==
    /\ OnlyAdds
    /\ Len(AddedTo("self")) = 4
    /\ AddedTo("self")[1].item.tag = "NonZeroGrow"
    /\ AddedTo("self")[2].item.tag = "NonZeroGrow"
    /\ AddedTo("self")[2].item.length < AddedTo("self")[1].item.length
    /\ AddedTo("self")[3].item.tag # "NonZeroGrow"
    /\ AddedTo("self")[4].item.tag = "NonZeroGrow"

\* C15: on a Conflicts group pop and peek return the highest-priority heap
\* entry whenever the heap is non-empty, a pending shrink stop only when the
\* heap is empty, and None only when the heap and the map are both empty
PopAndPeekReturnHeapFirst ==
    (Len(trace) > 0 /\ LastCall.op \in {"pop", "peek"}) =>
        /\ LastCall.before.heap # EmptyBag =>
              /\ BagIn(returned, LastCall.before.heap)
              /\ \A y \in BagToSet(LastCall.before.heap) : Cmp(node, returned, y) # "Less"
        /\ returned.tag = "VertexShrinkStop" =>
              /\ LastCall.before.heap = EmptyBag
              /\ \E v \in DOMAIN LastCall.before.pending_stops :
                    LastCall.before.pending_stops[v] = returned
        /\ returned = NoItem =>
              /\ LastCall.before.heap = EmptyBag
              /\ DOMAIN LastCall.before.pending_stops = {}

\* C15 witness: a pop returned a heap entry of a group that held a pending
\* stop as well
PoppedHeapEntryBesidePendingStop ==
    /\ Len(trace) > 0 /\ LastCall.op = "pop"
    /\ LastCall.before.heap # EmptyBag
    /\ DOMAIN LastCall.before.pending_stops # {}
    /\ returned.tag # "VertexShrinkStop"

\* C16: over any sequence of add and extend calls the pending-stop map of a
\* group converts the shrink stops reported at a vertex into one Conflicting
\* event, never into more than one
OneRendezvousAtEachVertex ==
    \A g \in Groups, v \in Vertices : formed[g][v] <= 1

\* the adds of a shrink stop with a pair at vertex v
StopsWithPairAt(v) ==
    {i \in 1..Len(trace) :
        /\ trace[i].op = "add"
        /\ StopWithPair(trace[i].item)
        /\ StopVertex(trace[i].item) = v}

\* C16 as amended: each Conflicting event the pending-stop map forms takes two
\* shrink stops reported at one vertex with pairs of different first nodes,
\* the pending one and the arriving one, and empties the entry: the events
\* formed at a vertex are at most half the shrink stops with a pair reported
\* there
EachRendezvousTakesTwoStops ==
    /\ \A v \in Vertices :
          2 * (formed["self"][v] + formed["other"][v]) <= Cardinality(StopsWithPairAt(v))
    /\ (Len(trace) > 0 /\ LastCall.op = "add" /\ LastCall.before.kind = "Conflicts"
        /\ LastCall.item.tag = "VertexShrinkStop") =>
          LET g == group[LastCall.group]
              v == StopVertex(LastCall.item)
          IN \/ g.heap = LastCall.before.heap
             \/ /\ v \in DOMAIN LastCall.before.pending_stops
                /\ StopWithPair(LastCall.item)
                /\ StopWithPair(LastCall.before.pending_stops[v])
                /\ LastCall.item.second[1] # LastCall.before.pending_stops[v].second[1]
                /\ g.heap = HeapPush(LastCall.before.heap,
                                Conflicting(LastCall.item.second,
                                            LastCall.before.pending_stops[v].second))
                /\ v \notin DOMAIN g.pending_stops

\* C16 witness: the stops of one vertex formed two Conflicting events
TwoRendezvousAtOneVertex ==
    \E v \in Vertices : formed["self"][v] = 2

\* X.fuse(Y) of the specification: a new interface that fuses X and Y, as a
\* fusing unit does with its two children
FuseOf(heap, X, Y) == FuseInterfaces(heap, NewEmpty, X, Y)

\* C17: fuse is associative for the totals: for any three interfaces A, B, C,
\* fusing A with B and the result with C gives the same sum_dual_variables as
\* fusing B with C and then A with that result
FuseAssociativeForTotals ==
    \A a, b, c \in Interfaces : Cardinality({a, b, c}) = 3 =>
        LET A == interface[a]
            B == interface[b]
            C == interface[c]
            AB == FuseOf(node, A, B)
            AB_C == FuseOf(AB.heap, AB.itf, C)
            BC == FuseOf(node, B, C)
            A_BC == FuseOf(BC.heap, A, BC.itf)
        IN AB_C.itf.sum_dual_variables = A_BC.itf.sum_dual_variables

\* C17 witness: the three interfaces hold nodes and totals that are not all
\* the same
ThreeInterfacesWithTotals ==
    /\ call.op = "idle"
    /\ \A u \in Interfaces :
          /\ interface[u].nodes_length > 0
          /\ interface[u].sum_dual_variables > 0
    /\ interface["self"].sum_dual_variables # interface["left"].sum_dual_variables

\* an expand_blossom returns that was called right after the create_blossom of
\* its blossom
RoundTripReturns ==
    /\ history.created.state = "expanding"
    /\ history'.created.state = "expanded"

\* the members and the slot of the blossom after the round trip
RoundTripRestoresMembers(heap, itf, blossom, circle) ==
    /\ \A k \in 1..Len(circle) :
          /\ heap[circle[k]].grow_state = "Grow"
          /\ heap[circle[k]].parent_blossom = None
    /\ itf.nodes[heap[blossom].index + 1] = None

\* C18: for any valid circle of an interface, create_blossom followed
\* immediately by expand_blossom of the new blossom leaves every member with
\* grow_state Grow and no parent, leaves the slot of the blossom empty and
\* leaves sum_grow_speed equal to the value it had before create_blossom
RoundTripRestoresSumGrowSpeed ==
    [][RoundTripReturns =>
          LET created == history.created
          IN /\ RoundTripRestoresMembers(node', interface'[created.interface],
                                         created.blossom, created.circle)
             /\ interface'[created.interface].sum_grow_speed = created.sum_grow_speed]_vars

\* C18 as amended: the round trip leaves every member with grow_state Grow and
\* no parent, the slot of the blossom empty, and sum_grow_speed equal to the
\* value before create_blossom plus twice the number of members that were in
\* state Shrink
RoundTripAddsTwicePerShrinkingMember ==
    [][RoundTripReturns =>
          LET created == history.created
          IN /\ RoundTripRestoresMembers(node', interface'[created.interface],
                                         created.blossom, created.circle)
             /\ interface'[created.interface].sum_grow_speed =
                   created.sum_grow_speed + 2 * created.shrinking]_vars

\* C18 witness: the round trip of a circle with a shrinking member has returned
RoundTripOfShrinkingMemberDone ==
    /\ call.op = "idle"
    /\ history.created.state = "expanded"
    /\ history.created.shrinking > 0
    /\ interface[history.created.interface].sum_grow_speed
          = history.created.sum_grow_speed + 2

RECURSIVE SumRootGrowSpeed(_, _, _)
\* the sum of the grow states (Grow +1, Shrink -1, Stay 0) of the nodes without
\* a parent in the non-empty slots k.. below nodes_length
SumRootGrowSpeed(heap, itf, k) ==
    IF k > itf.nodes_length THEN 0
    ELSE (IF itf.nodes[k] # None /\ heap[itf.nodes[k]].parent_blossom = None
          THEN UnitGrowth(heap[itf.nodes[k]].grow_state) ELSE 0)
         + SumRootGrowSpeed(heap, itf, k + 1)

\* C19: between operations, on every interface that is operated on,
\* sum_grow_speed is the algebraic sum of the grow states of the tracked
\* root-level nodes, after any sequence of create_syndrome_node, create_blossom,
\* expand_blossom, set_grow_state, grow, fuse and clear
SumGrowSpeedIsRootSum ==
    call.op = "idle" =>
        \A u \in Interfaces :
            Operable(u) =>
                interface[u].sum_grow_speed = SumRootGrowSpeed(node, interface[u], 1)

\* the indices of `indices` grow strictly
StrictlyIncreasing(indices) ==
    \A j, k \in 1..Len(indices) : j < k => indices[j] < indices[k]

\* the slots of `slots` that interface itf has are empty
SlotsEmpty(itf, slots) ==
    \A index \in slots : index < Len(itf.nodes) => itf.nodes[index + 1] = None

\* C20: node indices of an interface are never reused: over any sequence of
\* operations on one interface every newly created node receives an index
\* strictly greater than every index assigned before it, and a slot vacated by
\* expand_blossom is never filled again
NodeIndicesNeverReused ==
    \A u \in Interfaces :
        /\ StrictlyIncreasing(history.assigned[u])
        /\ SlotsEmpty(interface[u], history.vacated[u])

\* C20 as amended: the same, over the operations since the last clear of the
\* interface
NodeIndicesNotReusedBeforeClear ==
    \A u \in Interfaces :
        /\ StrictlyIncreasing(history.assigned_since_clear[u])
        /\ SlotsEmpty(interface[u], history.vacated_since_clear[u])

\* C20 witness: a node was created on an interface after expand_blossom
\* vacated a slot of it
NodeCreatedAfterSlotVacated ==
    \E u \in Interfaces :
        \E index \in history.vacated_since_clear[u] :
            \E k \in 1..Len(history.assigned_since_clear[u]) :
                /\ history.assigned_since_clear[u][k] > index
                /\ interface[u].nodes[history.assigned_since_clear[u][k] + 1] # None

\* create_blossom accepted the circle of history.created
CircleAccepted == history.created.state # "none"

\* C21: create_blossom accepts a circle only if, at the instant of creation,
\* its first member is in state Grow and its last member in state Shrink, the
\* members alternating Grow, Shrink in between
AcceptedCircleEndsShrinking ==
    CircleAccepted =>
        LET grow_states == history.created.grow_states
        IN /\ grow_states[1] = "Grow"
           /\ grow_states[Len(grow_states)] = "Shrink"
           /\ \A k \in 1..(Len(grow_states) - 1) : grow_states[k] # grow_states[k + 1]
           /\ \A k \in 1..Len(grow_states) : grow_states[k] # "Stay"

\* C22: create_blossom rejects a circle with an even number of members: a
\* blossom is created only from a circle of odd length
AcceptedCircleIsOdd ==
    CircleAccepted => Len(history.created.circle) % 2 = 1

\* C23: create_blossom called with an empty touching_children sets the entry
\* of each member c of the circle to (c, c), and it is permitted only if every
\* member is a syndrome-vertex node
DefaultTouchingOnlyForSyndromeNodes ==
    (CircleAccepted /\ history.created.touching = <<>>) =>
        LET created == history.created
        IN /\ \A k \in 1..Len(created.circle) :
                 node[created.circle[k]].class = "SyndromeVertex"
           /\ created.state # "creating" =>
                 node[created.blossom].touching_children =
                     [k \in 1..Len(created.circle) |->
                         <<created.circle[k], created.circle[k]>>]

\* a turn of the loop of grow_iterative
GrowIterativeQueries ==
    history'.grow_iterative.queries = history.grow_iterative.queries + 1

\* grow_iterative returns
GrowIterativeReturns == call.op = "grow_iterative" /\ call'.op = "idle"

RECURSIVE Subtree(_)
\* the units of the subtree of unit u
Subtree(u) ==
    IF IsLeaf(u) THEN {u}
    ELSE {u} \cup Subtree(LeftChild(u)) \cup Subtree(RightChild(u))

\* the positions of a unit from its fuse on
FromFuse == {"fuse", "callback", "break_matching", "load_syndrome", "solve",
             "callback_done", "finish", "returned"}

\* C25: with debug_sequential set, every step of the subtree of the left child
\* precedes every step of the subtree of the right child (a unit of the right
\* subtree has left "idle" only when every unit of the left subtree is over),
\* which precedes the fuse of the parent; the steps run as nested calls of
\* one worker, so that one unit at a time can take a step and the sequence of
\* callback invocations is the same in every run
SequentialLeftThenRightThenFuse ==
    config.debug_sequential =>
        /\ \A u \in InternalUnits :
              /\ \A a \in Subtree(LeftChild(u)), b \in Subtree(RightChild(u)) :
                    pc[b] # "idle" => pc[a] \in Finished
              /\ pc[u] \in FromFuse =>
                    \A a \in Subtree(u) \ {u} : pc[a] \in Finished
        /\ Cardinality({w \in Workers : stack[w] # <<>>}) <= 1
        /\ \A u \in TreeUnits :
              /\ pc[u] # "queued"
              /\ pc[u] \notin ({"idle"} \cup Finished) =>
                    \E w \in Workers : \E k \in 1..Len(stack[w]) : stack[w][k] = u
        /\ Cardinality({u \in TreeUnits : Running(u) /\ pc[u] \notin Finished}) <= 1

\* C25 witness: in debug_sequential mode the right child solves after the left
\* child has returned
RightChildSolvesAfterLeft ==
    /\ config.debug_sequential
    /\ \E u \in InternalUnits :
          /\ pc[RightChild(u)] = "callback_done"
          /\ pc[LeftChild(u)] = "returned"
          /\ pc[u] = "right"

\* the first entries of the unit's steps are those of `order`, as far as both go
StepsFollow(u, order) ==
    LET n == Min(Len(steps[u]), Len(order))
    IN  SubSeq(steps[u], 1, n) = SubSeq(order, 1, n)

\* the number of callback(.., None) invocations of the unit in this solve
CallbacksWithNone(u) ==
    Cardinality({k \in 1..Len(steps[u]) : steps[u][k] = "callback"})

\* C27 as stated: the steps of an internal unit run in the order both children
\* deactivated, fuse, break_matching_with_mirror, the callback hook where the
\* unit has a callback, loading of the syndrome vertices, resumed solve
BreakMatchingBeforeCallbackHook ==
    \A u \in InternalUnits :
        StepsFollow(u,
            IF HasCallback(u)
            THEN <<"deactivate", "deactivate", "fuse", "break_matching_with_mirror",
                   "callback", "load_syndrome", "solve">>
            ELSE <<"deactivate", "deactivate", "fuse", "break_matching_with_mirror",
                   "load_syndrome", "solve">>)

\* C27: the steps of an internal unit run in the order both children
\* deactivated, fuse, the callback hook where the unit has a callback,
\* break_matching_with_mirror, loading of the syndrome vertices, resumed solve
CallbackHookBeforeBreakMatching ==
    \A u \in InternalUnits :
        StepsFollow(u,
            IF HasCallback(u)
            THEN <<"deactivate", "deactivate", "fuse", "callback",
                   "break_matching_with_mirror", "load_syndrome", "solve">>
            ELSE <<"deactivate", "deactivate", "fuse", "break_matching_with_mirror",
                   "load_syndrome", "solve">>)

\* C27 witness: an internal unit that has a callback has resumed its solve on
\* the fused interface, the callback having run between fuse and
\* break_matching_with_mirror
InternalUnitSolvedAfterCallbackHook ==
    \E u \in InternalUnits :
        /\ HasCallback(u)
        /\ Len(steps[u]) >= 7
        /\ steps[u][4] = "callback"
        /\ steps[u][7] = "solve"

\* C28 as stated: in debug_sequential mode a unit invokes the callback with
\* None exactly once, after its solve has ended and with no further step after
\* it but the return
CallbackNoneOnceAtCompletion ==
    config.debug_sequential =>
        \A u \in TreeUnits :
            /\ CallbacksWithNone(u) <= 1
            /\ pc[u] = "returned" => CallbacksWithNone(u) = 1
            /\ \A k \in 1..Len(steps[u]) :
                  steps[u][k] = "callback" =>
                      /\ k > 1 /\ steps[u][k - 1] = "solve"
                      /\ k < Len(steps[u]) => steps[u][k + 1] = "return"

\* C28: in debug_sequential mode a leaf invokes the callback with None exactly
\* once and an internal unit exactly twice, the first time right after its
\* fuse; the last invocation of a unit comes after its solve has ended and no
\* further step of the unit follows it but the return
CallbackNoneAfterFuseAndAtCompletion ==
    config.debug_sequential =>
        \A u \in TreeUnits :
            /\ CallbacksWithNone(u) <= (IF IsLeaf(u) THEN 1 ELSE 2)
            /\ pc[u] = "returned" =>
                  /\ CallbacksWithNone(u) = (IF IsLeaf(u) THEN 1 ELSE 2)
                  /\ Len(steps[u]) >= 3
                  /\ steps[u][Len(steps[u])] = "return"
                  /\ steps[u][Len(steps[u]) - 1] = "callback"
                  /\ steps[u][Len(steps[u]) - 2] = "solve"
            /\ \A k \in 1..Len(steps[u]) :
                  steps[u][k] = "callback" =>
                      /\ k > 1
                      /\ \/ steps[u][k - 1] = "solve"
                         \/ ~IsLeaf(u) /\ steps[u][k - 1] = "fuse"
                      /\ (steps[u][k - 1] = "solve" /\ k < Len(steps[u])) =>
                            steps[u][k + 1] = "return"

\* C28 witness: in debug_sequential mode an internal unit has returned after
\* two invocations of the callback with None, and a leaf after one
InternalUnitReturnedAfterTwoCallbacks ==
    /\ config.debug_sequential
    /\ \E u \in InternalUnits :
          /\ pc[u] = "returned"
          /\ CallbacksWithNone(u) = 2
          /\ pc[LeftChild(u)] = "returned"
          /\ CallbacksWithNone(LeftChild(u)) = 1

\* break_matching_with_mirror returns
BreakMatchingReturns == call.op = "break_matching" /\ call'.op = "idle"

\* the node was, at the call, temporarily matched to a virtual vertex owned by
\* the unit that breaks its matchings
MatchedToOwnVirtual(n) ==
    /\ history.break_matching[n] # NoMatch
    /\ VertexToOwningUnit(history.break_matching[n]) = call.interface

\* the entries with a match to a virtual vertex owned by the unit: match
\* cleared, origin dual node in state Grow
OwnMatchesBroken ==
    \A k \in 1..Len(call.circle) :
        MatchedToOwnVirtual(call.circle[k]) =>
            /\ temporary_match'[call.circle[k]] = NoMatch
            /\ node'[call.circle[k]].grow_state = "Grow"

\* the other entries have the match they had at the call
OtherMatchesUntouched ==
    \A k \in 1..Len(call.circle) :
        ~MatchedToOwnVirtual(call.circle[k]) =>
            temporary_match'[call.circle[k]] = history.break_matching[call.circle[k]]

SlotsAppended(result, other, from) ==
    \A i \in 0..(other.nodes_length - 1) :
        /\ result.itf.nodes[from + i + 1] = other.nodes[i + 1]
        /\ other.nodes[i + 1] # None =>
              result.heap[other.nodes[i + 1]].index = from + i

\* C30: self.fuse(left, right) appends the slots of left and then those of
\* right: nodes_length grows by the two lengths, slot i of left is at
\* old_length + i and slot j of right at old_length + left.nodes_length + j,
\* empty slots are empty at their new position, the index of each moved node is
\* its new slot, and the slots self held before are unchanged
FuseAppendsLeftThenRight ==
    call.op = "idle" =>
        \A a, b, c \in Interfaces : Cardinality({a, b, c}) = 3 =>
            LET old_length == interface[a].nodes_length
                left == interface[b]
                right == interface[c]
                result == FuseInterfaces(node, interface[a], left, right)
            IN /\ result.itf.nodes_length =
                      old_length + left.nodes_length + right.nodes_length
               /\ SlotsAppended(result, left, old_length)
               /\ SlotsAppended(result, right, old_length + left.nodes_length)
               /\ \A k \in 1..old_length :
                      result.itf.nodes[k] = interface[a].nodes[k]

\* the interfaces that are operated on and track node n, when `is_fused` tells
\* whether the children are fused: at most one
TrackersOf(itfs, is_fused, n) ==
    {u \in Interfaces :
        /\ IF partition_info.partitions = 1 THEN u = "self"
           ELSE IF u = "self" THEN is_fused ELSE ~is_fused
        /\ n \in TrackedNodes(itfs[u])}

\* get_dual_variable(n), read through the interface that tracks n
CurrentDualVariable(heap, itfs, is_fused, n) ==
    {GetDualVariable(heap[n], itfs[u]) : u \in TrackersOf(itfs, is_fused, n)}

\* the length the step grows node n's interface by: the progress made by the
\* interface that tracks n before and after the step
GrownBy(n) ==
    LET same == TrackersOf(interface, fused, n) \cap TrackersOf(interface', fused', n)
    IN IF same = {} THEN 0
       ELSE LET u == CHOOSE w \in same : TRUE
            IN interface'[u].dual_variable_global_progress
                   - interface[u].dual_variable_global_progress

BackendCalledBeforeNodeIsSet ==
    /\ history.backend.seen \in {"none", history.backend.prior}
    /\ (call.stage \in {"refresh", "backend"} /\ history.backend.node # None) =>
          node[history.backend.node].grow_state = history.backend.prior
    /\ (call.stage = "set") => history.backend.seen = history.backend.prior

\* C32 witness: break_matching_with_mirror has told the backend that a matched
\* node grows again, and the node is still in state Stay
BackendToldBeforeMatchedNodeGrows ==
    /\ call.op = "break_matching" /\ call.stage = "set"
    /\ history.backend.seen = "Stay"
    /\ history.backend.requested = "Grow"
    /\ node[history.backend.node].grow_state = "Stay"

\* C33: create_blossom is atomic: when an assert on a member of the circle
\* fails, no member's grow_state or parent_blossom has changed, sum_grow_speed
\* and nodes_length are as they were, and the backend has received no
\* set_grow_state call
CreateBlossomFailsAtomically ==
    call.op = "panicked" =>
        /\ \A k \in 1..Len(call.circle) :
              /\ node[call.circle[k]].grow_state =
                    history.backend.heap[call.circle[k]].grow_state
              /\ node[call.circle[k]].parent_blossom =
                    history.backend.heap[call.circle[k]].parent_blossom
        /\ interface[call.interface].sum_grow_speed = history.backend.itf.sum_grow_speed
        /\ interface[call.interface].nodes_length = history.backend.itf.nodes_length
        /\ history.backend.calls = 0

\* the slots of the interface that track a syndrome node of vertex v
SyndromeNodesOf(itf, v) ==
    {k \in 1..itf.nodes_length :
        /\ itf.nodes[k] # None
        /\ node[itf.nodes[k]].class = "SyndromeVertex"
        /\ node[itf.nodes[k]].syndrome_index = v}

\* every unit of the tree has loaded its syndrome vertices, the last of them
\* the root
SolveLoaded ==
    /\ call.op = "idle"
    /\ history.solve.state = "running"
    /\ history.solve.loaded = LoadingUnits

\* C34: after parallel_solve the interface of the root tracks exactly one
\* syndrome node for each syndrome vertex of the pattern and none for any
\* other vertex; until then each unit tracks the vertices of the pattern that
\* its subtree has loaded, once each
RootTracksEachSyndromeVertexOnce ==
    /\ SolveLoaded =>
          \A v \in Vertices :
              Cardinality(SyndromeNodesOf(interface["self"], v)) =
                  (IF \E k \in 1..Len(history.solve.pattern) : history.solve.pattern[k] = v
                   THEN 1 ELSE 0)
    /\ history.solve.state = "running" =>
          \A u \in Interfaces, v \in Vertices :
              (Operable(u) /\ SyndromeNodesOf(interface[u], v) # {}) =>
                  /\ Cardinality(SyndromeNodesOf(interface[u], v)) = 1
                  /\ \E k \in 1..Len(history.solve.pattern) : history.solve.pattern[k] = v

\* C34 witness: a solve over two partitions is over, with one syndrome vertex
\* loaded by a leaf and one loaded by the fusing unit after the fuse
LeafAndInterfaceVerticesTracked ==
    /\ SolveLoaded
    /\ fused
    /\ Len(history.solve.pattern) = 2
    /\ history.solve.pattern[1] \in OwningRange("left")
    /\ history.solve.pattern[2] \in OwningRange("self")
    /\ interface["self"].nodes_length = 2

\* C35: a pop on a Conflicts group removes exactly the item it returns: when
\* it returns a heap entry, that entry leaves the heap and the map of pending
\* stops is as it was before the call
PopRemovesOnlyWhatItReturns ==
    (Len(trace) > 0 /\ LastCall.op = "pop" /\ LastCall.before.heap # EmptyBag) =>
        /\ group[LastCall.group].heap = LastCall.before.heap (-) SetToBag({returned})
        /\ group[LastCall.group].pending_stops = LastCall.before.pending_stops

\* what a caller can read from an interface: its length, the node tracked in
\* each slot with its dual variable, and the two totals
Observed(heap, itf) ==
    [nodes_length |-> itf.nodes_length,
     nodes |-> [k \in 1..itf.nodes_length |->
                   IF itf.nodes[k] = None THEN <<>>
                   ELSE <<heap[itf.nodes[k]].class, heap[itf.nodes[k]].syndrome_index,
                          heap[itf.nodes[k]].grow_state,
                          GetDualVariable(heap[itf.nodes[k]], itf)>>],
     sum_grow_speed |-> itf.sum_grow_speed,
     sum_dual_variables |-> itf.sum_dual_variables]

\* load(pattern) on an interface, as a caller reads the result
ObservedAfterLoad(itf, pattern) ==
    Observed(LoadHeap(node, itf, allocated + 1, pattern),
             LoadInterface(itf, allocated + 1, pattern))

\* C36: a cleared interface is equivalent to a new empty one: whatever was
\* done to an interface before, clear followed by load(p) yields the same
\* nodes_length, tracked nodes, dual variables, sum_grow_speed and
\* sum_dual_variables as new_empty followed by load(p)
ClearedIsNewEmpty ==
    call.op = "idle" =>
        \A u \in Interfaces :
            Operable(u) =>
                \A p \in AllSyndromePatterns :
                    allocated + Len(p) <= MaxLength =>
                        ObservedAfterLoad(ClearInterface(interface[u]), p) =
                            ObservedAfterLoad(NewEmpty, p)

\* the units intermediate_matching aggregates over: "if !unit.is_active { continue }"
ActiveUnits == {u \in TreeUnits : is_active[u]}

\* C37: at every moment of parallel_solve no unit is active while one of its
\* ancestors is active, and when parallel_solve returns the root is the only
\* active unit of its tree
NoUnitActiveBelowActiveAncestor ==
    /\ \A a \in InternalUnits :
          is_active[a] => \A u \in Subtree(a) \ {a} : ~is_active[u]
    /\ pc[LastUnit] = "returned" => ActiveUnits = {LastUnit}

\* C37 witness: the root of a tree of several units has returned, both of its
\* children having solved and returned before
RootReturnedAboveSolvedChildren ==
    /\ InternalUnits # {}
    /\ pc[LastUnit] = "returned"
    /\ is_active[LastUnit]
    /\ solve_count[LeftChild(LastUnit)] = 1
    /\ solve_count[RightChild(LastUnit)] = 1
    /\ ActiveUnits = {LastUnit}

\* C38: fuse reads but does not modify its two sources: after
\* self.fuse(left, right) every node tracked by left and by right still has
\* its slot as index, and both report the same nodes_length, totals and
\* per-node dual variables as before the call
FuseLeavesSourcesUnmodified ==
    [][fuses' = fuses + 1 =>
          \A u \in {"left", "right"} :
              /\ \A k \in 1..interface'[u].nodes_length :
                    interface'[u].nodes[k] # None =>
                        node'[interface'[u].nodes[k]].index = k - 1
              /\ Observed(node', interface'[u]) = Observed(node, interface[u])]_vars

\* the unit is where its step invokes the callback: after the fuse, inside the
\* serial solve (for a unit that was handed one) and after the solve
InCallback(u) ==
    \/ pc[u] \in {"callback", "callback_done"}
    \/ pc[u] = "solve" /\ HasCallback(u)

\* a thread is executing statements of the unit's step: the step was entered
\* and has not ended, and it is not waiting for the steps of its children
Executing(u) ==
    pc[u] \notin ({"idle", "queued", "left", "right", "join"} \cup Finished)

\* C39: the callback is never executed by two threads at the same time: the
\* units solved under rayon::join invoke no callback, and a unit invokes the
\* callback only while no other unit is executing
CallbackNeverConcurrent ==
    /\ \A u \in TreeUnits :
          InCallback(u) => \A v \in TreeUnits \ {u} : ~Executing(v)
    /\ ~config.debug_sequential =>
          \A u \in TreeUnits \ {LastUnit} :
              /\ ~InCallback(u)
              /\ \A k \in 1..Len(steps[u]) : steps[u][k] # "callback"

\* C39 witness: without debug_sequential the last unit invokes the callback
\* after its fuse, its children having been solved by two workers
CallbackAfterParallelChildren ==
    /\ ~config.debug_sequential
    /\ InternalUnits # {}
    /\ pc[LastUnit] = "callback"
    /\ worker[LeftChild(LastUnit)] # worker[RightChild(LastUnit)]
    /\ solve_count[LeftChild(LastUnit)] = 1
    /\ solve_count[RightChild(LastUnit)] = 1

====
